---- MODULE Spec2Model ----
(***************************************************************************)
(* A model of the SIRE converter (src/sire_converter.py): the reference    *)
(* resolvers, the document validator, the date parser, the column detector *)
(* and the SireConverter.convert pass.                                     *)
(*                                                                         *)
(* Text is modelled as a sequence of one-character strings, so that the    *)
(* code's strip / upper / split / substring / join operations are computed *)
(* rather than assumed.  Accented letters are written as named characters  *)
(* ("Aacute" is the capital A with acute accent, "ntilde" the small n with *)
(* tilde, and so on).                                                      *)
(***************************************************************************)
EXTENDS Integers, Sequences, FiniteSets, TLC

VARIABLES
  pc,           \* where the running entry point stands: "call", then "returned"
  doc_number,   \* DocumentValidator.validate_document: the argument
  doc_result,   \* ... and the (es_valido, mensaje) it returned
  date_val,     \* DateParser.parse: the argument
  date_result,  \* ... and the (fecha, confianza) it returned, or that it raised
  country,      \* CountryCodes.get_code: the argument
  code_result,  \* ... and the (codigo, confianza) it returned
  df,           \* the dataset: its column names and its rows of cells
  column_map,   \* ColumnDetector.detect_columns(df): field -> (column, confidence)
  hotel_code,   \* SireConverter.hotel_code
  city_code,    \* SireConverter.city_code
  movement_type,\* convert's argument: "E" or "S"
  stats,        \* SireConverter.stats
  errors,       \* SireConverter.errors
  warnings,     \* SireConverter.warnings
  lines,        \* convert's local list of output lines
  seen_keys,    \* convert's local set of duplicate keys
  idx,          \* the index of the next row of df to process
  earlier_keys, \* the duplicate keys the earlier calls of convert on the instance saw
  doc_type,     \* DocumentTypes.get_code: the argument
  type_result,  \* ... and the (codigo, confianza) it returned
  full_name,    \* TextNormalizer.split_full_name: the argument
  name_parts,   \* ... and the (primer_apellido, segundo_apellido, nombres) it returned
  column_name,  \* ColumnDetector._fuzzy_match: the column argument
  pattern_list, \* ... its list of patterns
  match_result, \* ... and the (coincide, puntuacion) it returned
  file_path,    \* SireTerminal.file_path: the file selected ("": none yet)
  process_btn,  \* the state of SireTerminal.process_btn: "normal" or "disabled"
  download_btn, \* whether SireTerminal.download_btn is gridded
  output_lines, \* SireTerminal.output_lines
  converter,    \* SireTerminal.converter: the run that made it (0: None)
  thread,       \* where the thread that runs _do_process stands
  thread_df,    \* its local df: the file it read
  thread_lines, \* its local lines
  idle_calls,   \* the callbacks given to after_idle and not yet run
  selections,   \* how many files the user has selected so far
  runs,         \* how many times _process started a thread
  started_at,   \* the value of selections when the thread was started
  written,      \* what _download wrote, and after how many selections
  none_read     \* whether the thread took an attribute of a converter that is None

validateVars == <<doc_number, doc_result>>
dateVars == <<date_val, date_result>>
countryVars == <<country, code_result>>
detectVars == <<df, column_map>>
convertVars ==
  <<hotel_code, city_code, movement_type, stats, errors, warnings, lines,
    seen_keys, idx, earlier_keys>>
typeVars == <<doc_type, type_result>>
nameVars == <<full_name, name_parts>>
matchVars == <<column_name, pattern_list, match_result>>
terminalVars ==
  <<file_path, process_btn, download_btn, output_lines, converter, thread,
    thread_df, thread_lines, idle_calls, selections, runs, started_at, written,
    none_read>>
vars ==
  <<pc, doc_number, doc_result, date_val, date_result, country, code_result,
    df, column_map, hotel_code, city_code, movement_type, stats, errors,
    warnings, lines, seen_keys, idx, earlier_keys, doc_type, type_result, full_name,
    name_parts, column_name, pattern_list, match_result,
    file_path, process_btn, download_btn, output_lines, converter, thread,
    thread_df, thread_lines, idle_calls, selections, runs, started_at, written,
    none_read>>

----------------------------------------------------------------------------
(* Characters and the str methods the code uses *)

TAB == "\t"
NL == "\n"
SP == " "

\* str.isspace(): the whitespace str.strip() and str.split() act on
WS == {SP, TAB, NL}

LowerLetters ==
  <<"a","b","c","d","e","f","g","h","i","j","k","l","m",
    "n","o","p","q","r","s","t","u","v","w","x","y","z",
    "aacute","eacute","iacute","oacute","uacute","ntilde","udiaeresis">>

UpperLetters ==
  <<"A","B","C","D","E","F","G","H","I","J","K","L","M",
    "N","O","P","Q","R","S","T","U","V","W","X","Y","Z",
    "Aacute","Eacute","Iacute","Oacute","Uacute","Ntilde","Udiaeresis">>

Digits == <<"0","1","2","3","4","5","6","7","8","9">>

IndexOf(c, seq) == CHOOSE i \in 1..Len(seq) : seq[i] = c

IsLower(c) == \E i \in 1..Len(LowerLetters) : LowerLetters[i] = c
IsUpper(c) == \E i \in 1..Len(UpperLetters) : UpperLetters[i] = c
IsDigit(c) == \E i \in 1..Len(Digits) : Digits[i] = c

UpperChar(c) == IF IsLower(c) THEN UpperLetters[IndexOf(c, LowerLetters)] ELSE c
LowerChar(c) == IF IsUpper(c) THEN LowerLetters[IndexOf(c, UpperLetters)] ELSE c

\* str.upper() / str.lower()
upper(s) == [i \in 1..Len(s) |-> UpperChar(s[i])]
lower(s) == [i \in 1..Len(s) |-> LowerChar(s[i])]

RECURSIVE lstrip(_)
lstrip(s) == IF s # <<>> /\ Head(s) \in WS THEN lstrip(Tail(s)) ELSE s

RECURSIVE rstrip(_)
rstrip(s) ==
  IF s # <<>> /\ s[Len(s)] \in WS THEN rstrip(SubSeq(s, 1, Len(s) - 1)) ELSE s

\* str.strip()
strip(s) == rstrip(lstrip(s))

\* str.replace(c, ""): every occurrence of the character c removed
RECURSIVE remove_char(_, _)
remove_char(s, c) ==
  IF s = <<>> THEN <<>>
  ELSE IF Head(s) = c THEN remove_char(Tail(s), c)
  ELSE <<Head(s)>> \o remove_char(Tail(s), c)

\* set(s): the set of characters of s
char_set(s) == {s[i] : i \in 1..Len(s)}

\* a in b, for two strings
IsSubstring(a, b) ==
  \E i \in 0..(Len(b) - Len(a)) : \A j \in 1..Len(a) : b[i + j] = a[j]

\* the character sequence of a text literal
Chars(t) == [i \in 1..Len(t) |-> SubSeq(t, i, i)]

\* c * n
RECURSIVE repeat(_, _)
repeat(c, n) == IF n <= 0 THEN <<>> ELSE <<c>> \o repeat(c, n - 1)

----------------------------------------------------------------------------
(* Cell values.  A cell of the dataset, or an argument of a resolver, is a  *)
(* text, None, a float NaN, a native timestamp (year, month, day) or a     *)
(* pandas NaT.                                                              *)

StrV(s) == [kind |-> "str", s |-> s, y |-> 0, m |-> 0, d |-> 0]
NoneV == [kind |-> "none", s |-> <<>>, y |-> 0, m |-> 0, d |-> 0]
NanV == [kind |-> "nan", s |-> <<>>, y |-> 0, m |-> 0, d |-> 0]
NatV == [kind |-> "nat", s |-> <<>>, y |-> 0, m |-> 0, d |-> 0]
TsV(y, m, d) == [kind |-> "ts", s |-> <<>>, y |-> y, m |-> m, d |-> d]

is_nan_or_empty(v) ==
  CASE v.kind = "none" -> TRUE
    [] v.kind = "str" -> strip(v.s) = <<>>
    [] v.kind = "nan" -> TRUE
    [] OTHER -> FALSE

\* bool(value): None and the empty text are falsy; NaN, NaT and timestamps are truthy
truthy(v) ==
  CASE v.kind = "none" -> FALSE
    [] v.kind = "str" -> v.s # <<>>
    [] OTHER -> TRUE

Pad2(n) == <<Digits[((n \div 10) % 10) + 1], Digits[(n % 10) + 1]>>
Pad4(n) == Pad2(n \div 100) \o Pad2(n % 100)

\* str(value)
to_str(v) ==
  CASE v.kind = "str" -> v.s
    [] v.kind = "none" -> <<"N","o","n","e">>
    [] v.kind = "nan" -> <<"n","a","n">>
    [] v.kind = "nat" -> <<"N","a","T">>
    [] v.kind = "ts" ->
         Pad4(v.y) \o <<"-">> \o Pad2(v.m) \o <<"-">> \o Pad2(v.d)
           \o <<SP,"0","0",":","0","0",":","0","0">>

\* str.split(): the maximal runs of non-whitespace characters
RECURSIVE split(_)
split(s) ==
  LET t == lstrip(s) IN
  IF t = <<>> THEN <<>>
  ELSE LET n == IF \E i \in 1..Len(t) : t[i] \in WS
                THEN (CHOOSE i \in 1..Len(t) :
                        t[i] \in WS /\ \A j \in 1..(i - 1) : t[j] \notin WS) - 1
                ELSE Len(t)
       IN <<SubSeq(t, 1, n)>> \o split(SubSeq(t, n + 1, Len(t)))

\* str.split(c): the parts between occurrences of c, empty parts included
RECURSIVE split_on(_, _)
split_on(s, c) ==
  IF \E i \in 1..Len(s) : s[i] = c
  THEN LET i == CHOOSE k \in 1..Len(s) : s[k] = c /\ \A j \in 1..(k - 1) : s[j] # c
       IN <<SubSeq(s, 1, i - 1)>> \o split_on(SubSeq(s, i + 1, Len(s)), c)
  ELSE <<s>>

AllDigits(s) == \A i \in 1..Len(s) : IsDigit(s[i])

RECURSIVE ParseInt(_)
ParseInt(s) ==
  IF s = <<>> THEN 0
  ELSE 10 * ParseInt(SubSeq(s, 1, Len(s) - 1)) + (IndexOf(s[Len(s)], Digits) - 1)

----------------------------------------------------------------------------
(* ColumnDetector *)

\* the priority of tipo_documento, of numero_documento, and the
\* config.get('priority', 99) of a field that declares none
Priority1 == 1
Priority2 == 2
DefaultPriority == 99

\* ColumnDetector.FIELD_PATTERNS, in declared order.  A content pattern is
\* named here and matched by ContentMatch below.
FIELD_PATTERNS == <<
  [field |-> "tipo_documento", priority |-> Priority1,
     names |-> <<
       Chars("tipo de documento"), Chars("document type"), Chars("tipo documento"),
       Chars("doc type"), Chars("id type"), Chars("tipo de id"), Chars("tipo id") >>,
     content_patterns |-> <<"doctype">>,
     exclude_column_keywords |-> <<>>],
  [field |-> "numero_documento", priority |-> Priority2,
     names |-> <<
       Chars("document number"), Chars("numero documento"),
       Chars("n") \o <<"uacute">> \o Chars("mero de documento"),
       Chars("numero de identificacion"),
       Chars("n") \o <<"uacute">> \o Chars("mero de identificaci") \o <<"oacute">> \o Chars("n"),
       Chars("passport number"), Chars("passport no"), Chars("id number"), Chars("doc number"),
       Chars("document no"), Chars("numero del documento"),
       Chars("n") \o <<"uacute">> \o Chars("mero del documento"), Chars("no. documento"),
       Chars("nro documento"), Chars("n documento"), Chars("num documento"),
       Chars("numero id"), Chars("no identificacion"),
       Chars("n") \o <<"uacute">> \o Chars("mero identificaci") \o <<"oacute">> \o Chars("n") >>,
     content_patterns |-> <<"passport", "digits", "alnum">>,
     exclude_column_keywords |-> <<Chars("tipo")>>],
  [field |-> "nombres", priority |-> DefaultPriority,
     names |-> <<
       Chars("name"), Chars("first name"), Chars("nombres"), Chars("given name"),
       Chars("firstname"), Chars("given names"), Chars("nombre"), Chars("primer nombre") >>,
     content_patterns |-> <<>>,
     exclude_column_keywords |-> <<>>],
  [field |-> "primer_apellido", priority |-> DefaultPriority,
     names |-> <<
       Chars("surname"), Chars("last name"), Chars("apellido"), Chars("primer apellido"),
       Chars("family name"), Chars("lastname"), Chars("apellidos") >>,
     content_patterns |-> <<>>,
     exclude_column_keywords |-> <<>>],
  [field |-> "nombre_completo", priority |-> DefaultPriority,
     names |-> <<
       Chars("guest name"), Chars("nombre completo"), Chars("full name"), Chars("guest"),
       Chars("huesped"), Chars("nombre y apellido"),
       Chars("hu") \o <<"eacute">> \o Chars("sped"), Chars("cliente") >>,
     content_patterns |-> <<>>,
     exclude_column_keywords |-> <<>>],
  [field |-> "nacionalidad", priority |-> DefaultPriority,
     names |-> <<
       Chars("country"), Chars("nationality"), Chars("nacionalidad"), Chars("pais"),
       Chars("pa") \o <<"iacute">> \o Chars("s"), Chars("citizen"), Chars("citizenship"),
       Chars("nation") >>,
     content_patterns |-> <<>>,
     exclude_column_keywords |-> <<>>],
  [field |-> "fecha_nacimiento", priority |-> DefaultPriority,
     names |-> <<
       Chars("birthday"), Chars("birth date"), Chars("fecha nacimiento"),
       Chars("date of birth"), Chars("birthdate"), Chars("dob"), Chars("nacimiento"),
       Chars("born"), Chars("cumplea") \o <<"ntilde">> \o Chars("os"),
       Chars("fecha de nacimiento"), Chars("f. nacimiento") >>,
     content_patterns |-> <<"dmy", "ymd">>,
     exclude_column_keywords |-> <<>>],
  [field |-> "fecha_checkin", priority |-> DefaultPriority,
     names |-> <<
       Chars("arrival date"), Chars("arrival"), Chars("check-in"), Chars("checkin"),
       Chars("check in"), Chars("llegada"), Chars("entrada"), Chars("fecha entrada"),
       Chars("fecha llegada"), Chars("fecha de llegada"), Chars("ingreso") >>,
     content_patterns |-> <<>>,
     exclude_column_keywords |-> <<>>],
  [field |-> "fecha_checkout", priority |-> DefaultPriority,
     names |-> <<
       Chars("departure date"), Chars("departure"), Chars("check-out"), Chars("checkout"),
       Chars("check out"), Chars("salida"), Chars("fecha salida"), Chars("fecha checkout"),
       Chars("fecha de salida"), Chars("egreso") >>,
     content_patterns |-> <<>>,
     exclude_column_keywords |-> <<>>],
  [field |-> "procedencia", priority |-> DefaultPriority,
     names |-> <<
       Chars("pais de procedencia"), Chars("country of origin"), Chars("origin country"),
       Chars("procedencia"), Chars("from"), Chars("origen"), Chars("viene de") >>,
     content_patterns |-> <<>>,
     exclude_column_keywords |-> <<>>],
  [field |-> "destino", priority |-> DefaultPriority,
     names |-> <<
       Chars("pais de destino"), Chars("destination country"), Chars("destino"),
       Chars("destination"), Chars("to"), Chars("va a"), Chars("hacia") >>,
     content_patterns |-> <<>>,
     exclude_column_keywords |-> <<>>] >>

\* the mutant visits the fields in the opposite order
RECURSIVE sorted_descending(_)
sorted_descending(seq) ==
  IF seq = <<>> THEN <<>>
  ELSE <<seq[Len(seq)]>> \o sorted_descending(SubSeq(seq, 1, Len(seq) - 1))

\* sorted(): a stable insertion sort by priority
RECURSIVE insert_by_priority(_, _)
insert_by_priority(sorted, e) ==
  IF sorted = <<>> THEN <<e>>
  ELSE IF sorted[Len(sorted)].priority <= e.priority THEN Append(sorted, e)
  ELSE Append(insert_by_priority(SubSeq(sorted, 1, Len(sorted) - 1), e),
              sorted[Len(sorted)])

RECURSIVE sorted_by_priority(_)
sorted_by_priority(seq) ==
  IF seq = <<>> THEN <<>>
  ELSE insert_by_priority(sorted_by_priority(SubSeq(seq, 1, Len(seq) - 1)),
                          seq[Len(seq)])

sorted_fields == sorted_by_priority(FIELD_PATTERNS)

\* scores are exact fractions n/d, d > 0
Frac(n, d) == [n |-> n, d |-> d]
FracGE(a, b) == a.n * b.d >= b.n * a.d
FracMax(a, b) == IF FracGE(a, b) THEN a ELSE b
FracAdd(a, b) == Frac(a.n * b.d + b.n * a.d, a.d * b.d)

HighThreshold == Frac(8, 10)
MediumThreshold == Frac(4, 10)
DefaultThreshold == Frac(5, 10)
ContainBonus == Frac(3, 10)

IntMax(a, b) == IF a >= b THEN a ELSE b

\* set(s.split())
word_set(s) == LET w == split(s) IN {w[k] : k \in 1..Len(w)}

\* ColumnDetector._similarity
similarity(s1, s2) ==
  LET a == lower(s1)
      b == lower(s2)
      words1 == word_set(a)
      words2 == word_set(b)
  IN IF a = b THEN Frac(1, 1)
     ELSE IF words1 = {} \/ words2 = {} THEN Frac(0, 1)
     ELSE Frac(Cardinality(words1 \cap words2),
               IntMax(Cardinality(words1), Cardinality(words2)))

\* the score one pattern contributes in the loop of _fuzzy_match
pattern_score(col_lower, pattern) ==
  LET contain ==
        IF IsSubstring(pattern, col_lower) \/ IsSubstring(col_lower, pattern)
        THEN FracAdd(Frac(Len(pattern), IntMax(Len(col_lower), Len(pattern))),
                     ContainBonus)
        ELSE Frac(0, 1)
  IN FracMax(contain, similarity(col_lower, pattern))

RECURSIVE best_score(_, _, _)
best_score(col_lower, patterns, k) ==
  IF k > Len(patterns) THEN Frac(0, 1)
  ELSE FracMax(pattern_score(col_lower, patterns[k]),
               best_score(col_lower, patterns, k + 1))

\* ColumnDetector._fuzzy_match: (coincide, puntuacion)
fuzzy_match(column, patterns, threshold) ==
  LET col_lower == strip(lower(column)) IN
  IF \E k \in 1..Len(patterns) : patterns[k] = col_lower
  THEN [matches |-> TRUE, score |-> Frac(1, 1)]
  ELSE LET best == best_score(col_lower, patterns, 1)
       IN [matches |-> FracGE(best, threshold), score |-> best]

\* ColumnDetector._should_exclude_column
should_exclude_column(column, config) ==
  \E k \in 1..Len(config.exclude_column_keywords) :
    IsSubstring(lower(config.exclude_column_keywords[k]), lower(column))

IsAsciiLetter(c) ==
  \E i \in 1..26 : UpperLetters[i] = c \/ LowerLetters[i] = c

IsAlnum(c) == IsAsciiLetter(c) \/ IsDigit(c)

\* the number of digits that stand at position i and after it
RECURSIVE digit_run(_, _)
digit_run(s, i) ==
  IF i > Len(s) \/ ~IsDigit(s[i]) THEN 0 ELSE 1 + digit_run(s, i + 1)

\* the number of ASCII letters that stand at position i and after it
RECURSIVE letter_run(_, _)
letter_run(s, i) ==
  IF i > Len(s) \/ ~IsAsciiLetter(s[i]) THEN 0 ELSE 1 + letter_run(s, i + 1)

DateSeps == {"/", "-"}

HasPrefix(s, t) == Len(t) <= Len(s) /\ SubSeq(s, 1, Len(t)) = t

DocTypeWords ==
  { Chars("pasaporte"), Chars("passport"), Chars("cedula"), Chars("dni"),
    Chars("visa"), Chars("ppt") }

\* re.match(pattern, value, re.IGNORECASE) for the content patterns:
\*   passport  ^[A-Z]{1,2}\d{6,9}$        digits  ^\d{8,12}$
\*   alnum     ^[A-Z0-9]{6,12}$
\*   dmy       \d{1,2}[/-]\d{1,2}[/-]\d{2,4}
\*   ymd       \d{4}[/-]\d{1,2}[/-]\d{1,2}
\*   doctype   pasaporte|passport|cedula|dni|visa|ppt
ContentMatch(pattern, v) ==
  CASE pattern = "passport" ->
         LET k == letter_run(v, 1) IN
         /\ k \in {1, 2}
         /\ digit_run(v, k + 1) = Len(v) - k
         /\ (Len(v) - k) \in 6..9
    [] pattern = "digits" -> digit_run(v, 1) = Len(v) /\ Len(v) \in 8..12
    [] pattern = "alnum" ->
         Len(v) \in 6..12 /\ \A i \in 1..Len(v) : IsAlnum(v[i])
    [] pattern = "dmy" ->
         LET a == digit_run(v, 1)
             b == digit_run(v, a + 2)
         IN /\ a \in {1, 2}
            /\ a + 1 <= Len(v) /\ v[a + 1] \in DateSeps
            /\ b \in {1, 2}
            /\ a + b + 2 <= Len(v) /\ v[a + b + 2] \in DateSeps
            /\ digit_run(v, a + b + 3) >= 2
    [] pattern = "ymd" ->
         LET b == digit_run(v, 6) IN
         /\ digit_run(v, 1) = 4
         /\ 5 <= Len(v) /\ v[5] \in DateSeps
         /\ b \in {1, 2}
         /\ b + 6 <= Len(v) /\ v[b + 6] \in DateSeps
         /\ digit_run(v, b + 7) >= 1
    [] pattern = "doctype" -> \E w \in DocTypeWords : HasPrefix(lower(v), w)

\* ---- the dataset: df.columns and the rows, each a cell per column

ColIndex(frame, col) ==
  CHOOSE i \in 1..Len(frame.columns) : frame.columns[i] = col

\* row.get(col)
CellOf(frame, r, col) == frame.rows[r][ColIndex(frame, col)]

\* pandas isna(): None, NaN and NaT
IsNull(v) == v.kind \in {"none", "nan", "nat"}

SampleSize == 10

\* df[col].dropna().head(10).astype(str)
RECURSIVE dropna_str(_, _, _)
dropna_str(frame, col, r) ==
  IF r > Len(frame.rows) THEN <<>>
  ELSE IF IsNull(CellOf(frame, r, col)) THEN dropna_str(frame, col, r + 1)
  ELSE <<to_str(CellOf(frame, r, col))>> \o dropna_str(frame, col, r + 1)

sample_of(frame, col) ==
  LET all == dropna_str(frame, col, 1)
  IN SubSeq(all, 1, IF Len(all) < SampleSize THEN Len(all) ELSE SampleSize)

\* the number of sampled values that match one of the content patterns
content_matches(sample, content_patterns) ==
  Cardinality({k \in 1..Len(sample) :
                 \E j \in 1..Len(content_patterns) :
                   ContentMatch(content_patterns[j], strip(sample[k]))})

\* ---- detect_columns: the state threaded through the three passes

\* a claim that forgets to mark the column as used
Claim_unmarked(st, field, col, conf) ==
  [detected |-> (field :> [col |-> col, conf |-> conf]) @@ st.detected,
   used_columns |-> st.used_columns]

\* detected[field] = (col, conf); used_columns.add(col)
Claim(st, field, col, conf) ==
  [detected |-> (field :> [col |-> col, conf |-> conf]) @@ st.detected,
   used_columns |-> st.used_columns \cup {col}]

\* the first index of a sequence of booleans that holds TRUE (0: none); the
\* inner loops over df.columns stop at the first column they claim
FirstTrue(flags) ==
  IF \E i \in 1..Len(flags) : flags[i]
  THEN CHOOSE i \in 1..Len(flags) : flags[i] /\ \A j \in 1..(i - 1) : ~flags[j]
  ELSE 0

\* The column names of the datasets, and _should_exclude_column and
\* _fuzzy_match (at the default threshold of pass 1 and at the 0.4 of pass 2)
\* of each name against each field, computed once per name.
ColumnNames ==
  { Chars("Tipo de Documento"), Chars("Numero Documento"), Chars("Documento"),
    Chars("Nombre Completo"), Chars("Nombre"), Chars("Pais"), Chars("Fecha"),
    Chars("F.N."), Chars("Tipo Doc Num"), Chars("Codigo"), Chars("Notas"),
    Chars("Obs"), Chars("Id Documento"),
    Chars("Tipo Documento"), Chars("Apellidos"), Chars("Nombres"),
    Chars("Nacionalidad"), Chars("Procedencia"), Chars("Destino"),
    Chars("Fecha Entrada"), Chars("Fecha Salida"), Chars("Fecha Nacimiento") }

name_table ==
  [col \in ColumnNames |->
    [k \in 1..Len(sorted_fields) |->
      [exclude |-> should_exclude_column(col, sorted_fields[k]),
       pass1 |-> fuzzy_match(col, sorted_fields[k].names, DefaultThreshold),
       pass2 |-> fuzzy_match(col, sorted_fields[k].names, MediumThreshold)]]]

\* the column pass 1 claims for a field: unclaimed, not excluded, score >= 0.8
Pass1Takes(st, k, col) ==
  /\ col \notin st.used_columns
  /\ ~name_table[col][k].exclude
  /\ FracGE(name_table[col][k].pass1.score, HighThreshold)

RECURSIVE pass1(_, _, _)
pass1(frame, k, st) ==
  IF k > Len(sorted_fields) THEN st
  ELSE LET i == FirstTrue([c \in 1..Len(frame.columns) |->
                             Pass1Takes(st, k, frame.columns[c])])
       IN IF i = 0 THEN pass1(frame, k + 1, st)
          ELSE pass1(frame, k + 1,
                     Claim(st, sorted_fields[k].field, frame.columns[i], "HIGH"))

\* the column pass 2 claims: unclaimed, not excluded, matches at threshold 0.4
Pass2Takes(st, k, col) ==
  /\ col \notin st.used_columns
  /\ ~name_table[col][k].exclude
  /\ name_table[col][k].pass2.matches

\* the mutant lets pass 2 claim again for a field pass 1 already detected
RECURSIVE pass2_regrading(_, _, _)
pass2_regrading(frame, k, st) ==
  IF k > Len(sorted_fields) THEN st
  ELSE LET i == FirstTrue([c \in 1..Len(frame.columns) |->
                             Pass2Takes(st, k, frame.columns[c])])
       IN IF i = 0
          THEN pass2_regrading(frame, k + 1, st)
          ELSE pass2_regrading(frame, k + 1,
                     Claim(st, sorted_fields[k].field, frame.columns[i], "MEDIUM"))

RECURSIVE pass2(_, _, _)
pass2(frame, k, st) ==
  IF k > Len(sorted_fields) THEN st
  ELSE LET i == FirstTrue([c \in 1..Len(frame.columns) |->
                             Pass2Takes(st, k, frame.columns[c])])
       IN IF sorted_fields[k].field \in DOMAIN st.detected \/ i = 0
          THEN pass2(frame, k + 1, st)
          ELSE pass2(frame, k + 1,
                     Claim(st, sorted_fields[k].field, frame.columns[i], "MEDIUM"))

critical_fields == <<"numero_documento", "fecha_nacimiento", "nacionalidad">>

\* cls.FIELD_PATTERNS.get(field, {})
ConfigOf(field) ==
  FIELD_PATTERNS[CHOOSE i \in 1..Len(FIELD_PATTERNS) : FIELD_PATTERNS[i].field = field]

\* the column pass 3 claims: unclaimed, not excluded, and matches >= half
\* of the sample
Pass3Takes(frame, st, config, col) ==
  /\ col \notin st.used_columns
  /\ ~should_exclude_column(col, config)
  /\ LET sample == sample_of(frame, col)
     IN 2 * content_matches(sample, config.content_patterns) >= Len(sample)

RECURSIVE pass3(_, _, _)
pass3(frame, k, st) ==
  IF k > Len(critical_fields) THEN st
  ELSE LET field == critical_fields[k]
           config == ConfigOf(field)
           i == FirstTrue([c \in 1..Len(frame.columns) |->
                             Pass3Takes(frame, st, config, frame.columns[c])])
       IN IF field \in DOMAIN st.detected \/ config.content_patterns = <<>> \/ i = 0
          THEN pass3(frame, k + 1, st)
          ELSE pass3(frame, k + 1, Claim(st, field, frame.columns[i], "LOW"))

NothingDetected == [detected |-> <<>>, used_columns |-> {}]

\* ColumnDetector.detect_columns
detect_columns(frame) ==
  pass3(frame, 1, pass2(frame, 1, pass1(frame, 1, NothingDetected))).detected

----------------------------------------------------------------------------
(* DateParser *)

MinYear == 1900

\* datetime.now().year
CurrentYear == 2026

MonthAbbr == <<
  <<"j","a","n">>,
  <<"f","e","b">>,
  <<"m","a","r">>,
  <<"a","p","r">>,
  <<"m","a","y">>,
  <<"j","u","n">>,
  <<"j","u","l">>,
  <<"a","u","g">>,
  <<"s","e","p">>,
  <<"o","c","t">>,
  <<"n","o","v">>,
  <<"d","e","c">> >>

MonthFull == <<
  <<"j","a","n","u","a","r","y">>,
  <<"f","e","b","r","u","a","r","y">>,
  <<"m","a","r","c","h">>,
  <<"a","p","r","i","l">>,
  <<"m","a","y">>,
  <<"j","u","n","e">>,
  <<"j","u","l","y">>,
  <<"a","u","g","u","s","t">>,
  <<"s","e","p","t","e","m","b","e","r">>,
  <<"o","c","t","o","b","e","r">>,
  <<"n","o","v","e","m","b","e","r">>,
  <<"d","e","c","e","m","b","e","r">> >>

\* DateParser.FORMATS: the fields of each pattern in order, and what stands
\* between them ("ws": a blank of the pattern, which matches any run of
\* whitespace)
FORMATS == <<
  [fmt |-> "%d/%m/%Y", fields |-> <<"d","m","Y">>, sep |-> "/"],
  [fmt |-> "%Y-%m-%d", fields |-> <<"Y","m","d">>, sep |-> "-"],
  [fmt |-> "%d-%m-%Y", fields |-> <<"d","m","Y">>, sep |-> "-"],
  [fmt |-> "%m/%d/%Y", fields |-> <<"m","d","Y">>, sep |-> "/"],
  [fmt |-> "%d.%m.%Y", fields |-> <<"d","m","Y">>, sep |-> "."],
  [fmt |-> "%Y/%m/%d", fields |-> <<"Y","m","d">>, sep |-> "/"],
  [fmt |-> "%d %b %Y", fields |-> <<"d","b","Y">>, sep |-> "ws"],
  [fmt |-> "%d %B %Y", fields |-> <<"d","B","Y">>, sep |-> "ws"] >>

HighFormats == {"%d/%m/%Y", "%Y-%m-%d"}

IsLeap(y) == (y % 4 = 0 /\ y % 100 # 0) \/ y % 400 = 0

DaysInMonth(y, m) ==
  IF m = 2 THEN (IF IsLeap(y) THEN 29 ELSE 28)
  ELSE IF m \in {4, 6, 9, 11} THEN 30 ELSE 31

\* whether the text matches one strptime directive
FieldMatches(f, t) ==
  CASE f = "d" -> Len(t) \in {1, 2} /\ AllDigits(t) /\ ParseInt(t) \in 1..31
    [] f = "m" -> Len(t) \in {1, 2} /\ AllDigits(t) /\ ParseInt(t) \in 1..12
    [] f = "Y" -> Len(t) = 4 /\ AllDigits(t)
    [] f = "b" -> \E i \in 1..12 : MonthAbbr[i] = lower(t)
    [] f = "B" -> \E i \in 1..12 : MonthFull[i] = lower(t)

FieldValue(f, t) ==
  CASE f = "b" -> CHOOSE i \in 1..12 : MonthAbbr[i] = lower(t)
    [] f = "B" -> CHOOSE i \in 1..12 : MonthFull[i] = lower(t)
    [] OTHER -> ParseInt(t)

NoDate == [ok |-> FALSE, y |-> 0, m |-> 0, d |-> 0]

\* datetime.strptime(s, fmt): ok is FALSE where it raises ValueError
strptime(s, F) ==
  LET parts == IF F.sep = "ws" THEN split(s) ELSE split_on(s, F.sep)
      wsOk == F.sep = "ws" => (s # <<>> /\ s[1] \notin WS /\ s[Len(s)] \notin WS)
  IN IF Len(parts) # 3 \/ ~wsOk THEN NoDate
     ELSE IF \E i \in 1..3 : ~FieldMatches(F.fields[i], parts[i]) THEN NoDate
     ELSE LET val(f) == FieldValue(F.fields[CHOOSE i \in 1..3 :
                                      (F.fields[i] = f
                                        \/ (f = "m" /\ F.fields[i] \in {"b", "B"}))],
                                   parts[CHOOSE i \in 1..3 :
                                      (F.fields[i] = f
                                        \/ (f = "m" /\ F.fields[i] \in {"b", "B"}))])
              y == val("Y")
              m == val("m")
              d == val("d")
          IN IF y < 1 \/ d > DaysInMonth(y, m) THEN NoDate
             ELSE [ok |-> TRUE, y |-> y, m |-> m, d |-> d]

\* strftime('%d/%m/%Y')
strftime(y, m, d) == Pad2(d) \o <<"/">> \o Pad2(m) \o <<"/">> \o Pad4(y)

DateRet(value, confidence) ==
  [value |-> value, confidence |-> confidence, raised |-> FALSE]

\* NaT.strftime raises ValueError
DateRaised == [value |-> <<>>, confidence |-> "NONE", raised |-> TRUE]

NullDateTexts == { <<"n","a","n">>, <<"n","o","n","e">>, <<"n","a","t">>, <<>> }

\* the mutant rejects the first year of the range
YearInRange_exclusive(y) == MinYear < y /\ y <= CurrentYear + 1

\* the year check of DateParser.parse
YearInRange(y) == MinYear <= y /\ y <= CurrentYear + 1

\* DateParser.parse
parse(dv) ==
  IF dv.kind = "none" \/ is_nan_or_empty(dv) THEN DateRet(<<>>, "NONE")
  ELSE IF dv.kind = "ts" THEN DateRet(strftime(dv.y, dv.m, dv.d), "HIGH")
  ELSE IF dv.kind = "nat" THEN DateRaised
  ELSE
    LET s0 == strip(to_str(dv)) IN
    IF s0 = <<>> \/ lower(s0) \in NullDateTexts THEN DateRet(<<>>, "NONE")
    ELSE
      LET date_str == IF SP \in char_set(s0) THEN split(s0)[1] ELSE s0
          accepted == {i \in 1..Len(FORMATS) :
                         LET p == strptime(date_str, FORMATS[i])
                         IN p.ok /\ YearInRange(p.y)}
      IN IF accepted = {} THEN DateRet(<<>>, "LOW")
         ELSE LET i == CHOOSE k \in accepted : \A j \in accepted : k <= j
                  p == strptime(date_str, FORMATS[i])
              IN DateRet(strftime(p.y, p.m, p.d),
                         IF FORMATS[i].fmt \in HighFormats THEN "HIGH" ELSE "MEDIUM")

----------------------------------------------------------------------------
(* CountryCodes *)

K(key, code) == [key |-> Chars(key), code |-> Chars(code)]

\* CountryCodes.CODES, in the order of the dictionary
CODES == <<
  K("ESTADOS UNIDOS", "249"), K("UNITED STATES", "249"), K("UNITED STATES OF AMERICA", "249"),
  K("USA", "249"), K("US", "249"), K("AMERICA", "249"), K("E.E.U.U.", "249"), K("EEUU", "249"),
  K("CANADA", "149"), [key |-> Chars("CANAD") \o <<"Aacute">>, code |-> Chars("149")],
  K("CAN", "149"), K("MEXICO", "493"),
  [key |-> Chars("M") \o <<"Eacute">> \o Chars("XICO"), code |-> Chars("493")],
  K("MEX", "493"), K("GROENLANDIA", "315"), K("GREENLAND", "315"), K("BERMUDAS", "90"),
  K("BERMUDA", "90"), K("SAN PEDRO Y MIQUELON", "682"), K("SAINT PIERRE AND MIQUELON", "682"),
  K("GUATEMALA", "317"), K("GTM", "317"), K("HONDURAS", "345"), K("HND", "345"),
  K("EL SALVADOR", "242"), K("SLV", "242"), K("NICARAGUA", "521"), K("NIC", "521"),
  K("COSTA RICA", "196"), K("CRI", "196"), K("PANAMA", "580"),
  [key |-> Chars("PANAM") \o <<"Aacute">>, code |-> Chars("580")], K("PAN", "580"),
  K("BELICE", "88"), K("BELIZE", "88"), K("BLZ", "88"), K("CUBA", "199"), K("CUB", "199"),
  K("HAITI", "341"), [key |-> Chars("HAIT") \o <<"Iacute">>, code |-> Chars("341")],
  K("HTI", "341"), K("REPUBLICA DOMINICANA", "647"), K("DOMINICAN REPUBLIC", "647"),
  K("DOM", "647"), K("PUERTO RICO", "611"), K("PRI", "611"), K("JAMAICA", "391"),
  K("JAM", "391"), K("TRINIDAD Y TOBAGO", "815"), K("TRINIDAD AND TOBAGO", "815"),
  K("TTO", "815"), K("BAHAMAS", "77"), K("BAHAMAS ISLANDS", "77"), K("BHS", "77"),
  K("BARBADOS", "83"), K("BRB", "83"), K("ANTIGUA Y BARBUDA", "43"),
  K("ANTIGUA AND BARBUDA", "43"), K("ATG", "43"), K("DOMINICA", "235"), K("DMA", "235"),
  K("GRANADA", "297"), K("GRENADA", "297"), K("GRD", "297"),
  K("SAN CRISTOBAL Y NIEVES", "695"), K("SAINT KITTS AND NEVIS", "695"), K("KNA", "695"),
  K("SANTA LUCIA", "715"), K("SAINT LUCIA", "715"), K("LCA", "715"),
  K("SAN VICENTE Y LAS GRANADINAS", "705"), K("SAINT VINCENT AND THE GRENADINES", "705"),
  K("VCT", "705"), K("ARUBA", "67"), K("ABW", "67"), K("ANTILLAS HOLANDESAS", "921"),
  K("NETHERLANDS ANTILLES", "921"), K("ANT", "921"), K("ANTILLAS NEERLANDESAS", "44"),
  K("CURACAO", "201"), K("CURAZAO", "201"), K("ANGUILA", "895"), K("ANGUILLA", "895"),
  K("AIA", "895"), K("ISLAS VIRGENES BRITANICAS", "866"), K("BRITISH VIRGIN ISLANDS", "866"),
  K("VGB", "866"), K("ISLAS VIRGENES ESTADOUNIDENSES", "867"), K("US VIRGIN ISLANDS", "867"),
  K("VIR", "867"), K("ISLAS CAIMAN", "137"), K("CAYMAN ISLANDS", "137"), K("CYM", "137"),
  K("MONTSERRAT", "501"), K("MONSERRAT", "501"), K("MSR", "501"),
  K("ISLAS TURCAS Y CAICOS", "900"), K("TURKS AND CAICOS ISLANDS", "900"), K("TCA", "900"),
  K("GUADALUPE", "338"), K("GUADELOUPE", "338"), K("GLP", "338"), K("MARTINICA", "490"),
  K("MARTINIQUE", "490"), K("MTQ", "490"), K("COLOMBIA", "169"), K("COL", "169"),
  K("VENEZUELA", "850"), K("VEN", "850"), K("ECUADOR", "239"), K("ECU", "239"),
  K("PERU", "589"), [key |-> Chars("PER") \o <<"Uacute">>, code |-> Chars("589")],
  K("PER", "589"), K("BOLIVIA", "97"), K("BOL", "97"), K("CHILE", "211"), K("CHL", "211"),
  K("ARGENTINA", "63"), K("ARG", "63"), K("URUGUAY", "845"), K("URY", "845"),
  K("PARAGUAY", "586"), K("PRY", "586"), K("BRASIL", "105"), K("BRAZIL", "105"),
  K("BRA", "105"), K("GUYANA", "325"), K("GUY", "325"), K("SURINAM", "770"),
  K("SURINAME", "770"), K("SUR", "770"), K("GUAYANA FRANCESA", "340"),
  K("FRENCH GUIANA", "340"), K("GUF", "340"), K("ESPANA", "245"),
  [key |-> Chars("ESPA") \o <<"Ntilde">> \o Chars("A"), code |-> Chars("245")],
  K("SPAIN", "245"), K("ESP", "245"), K("FRANCIA", "275"), K("FRANCE", "275"), K("FRA", "275"),
  K("ALEMANIA", "23"), K("GERMANY", "23"), K("DEU", "23"), K("GER", "23"), K("ITALIA", "386"),
  K("ITALY", "386"), K("ITA", "386"), K("PORTUGAL", "607"), K("PRT", "607"),
  K("REINO UNIDO", "628"), K("UNITED KINGDOM", "628"), K("UK", "628"), K("GBR", "628"),
  K("ENGLAND", "628"), K("GREAT BRITAIN", "628"),
  [key |-> Chars("GRAN BRETA") \o <<"Ntilde">> \o Chars("A"), code |-> Chars("628")],
  K("INGLATERRA", "628"), K("IRLANDA", "375"), K("IRELAND", "375"), K("IRL", "375"),
  K("EIRE", "375"), K("PAISES BAJOS", "573"), K("NETHERLANDS", "573"), K("HOLANDA", "573"),
  K("NLD", "573"), K("BELGICA", "87"),
  [key |-> Chars("B") \o <<"Eacute">> \o Chars("LGICA"), code |-> Chars("87")],
  K("BELGIUM", "87"), K("BEL", "87"), K("LUXEMBURGO", "442"), K("LUXEMBOURG", "442"),
  K("LUX", "442"), K("SUIZA", "767"), K("SWITZERLAND", "767"), K("CHE", "767"),
  K("AUSTRIA", "72"), K("AUT", "72"), K("LIECHTENSTEIN", "441"), K("LIE", "441"),
  K("MONACO", "496"), K("MCO", "496"), K("ANDORRA", "37"), K("AND", "37"),
  K("SAN MARINO", "701"), K("SMR", "701"), K("CIUDAD DEL VATICANO", "717"),
  K("VATICAN", "717"), K("VATICANO", "717"), K("SANTA SEDE", "717"), K("VAT", "717"),
  K("GIBRALTAR", "293"), K("GIB", "293"), K("SUECIA", "764"), K("SWEDEN", "764"),
  K("SWE", "764"), K("NORUEGA", "538"), K("NORWAY", "538"), K("NOR", "538"),
  K("DINAMARCA", "232"), K("DENMARK", "232"), K("DNK", "232"), K("FINLANDIA", "271"),
  K("FINLAND", "271"), K("FIN", "271"), K("ISLANDIA", "379"), K("ICELAND", "379"),
  K("ISL", "379"), K("ISLAS FEROE", "390"), K("FAROE ISLANDS", "390"), K("FRO", "390"),
  K("ALAND", "384"), K("SVALBARD Y JAN MAYEN", "730"), K("RUSIA", "673"), K("RUSSIA", "673"),
  K("RUSSIAN FEDERATION", "673"), K("RUS", "673"), K("UCRANIA", "830"), K("UKRAINE", "830"),
  K("UKR", "830"), K("BIELORRUSIA", "85"), K("BELARUS", "85"), K("BLR", "85"),
  K("POLONIA", "603"), K("POLAND", "603"), K("POL", "603"), K("REPUBLICA CHECA", "207"),
  K("CZECH REPUBLIC", "207"), K("CZECHIA", "207"), K("CZE", "207"), K("ESLOVAQUIA", "247"),
  K("SLOVAKIA", "247"), K("SVK", "247"), K("HUNGRIA", "355"), K("HUNGARY", "355"),
  K("HUN", "355"), K("RUMANIA", "670"), K("ROMANIA", "670"), K("ROU", "670"),
  K("BULGARIA", "111"), K("BGR", "111"), K("MOLDAVIA", "495"), K("MOLDOVA", "495"),
  K("MDA", "495"), K("GRECIA", "301"), K("GREECE", "301"), K("GRC", "301"),
  K("TURQUIA", "827"),
  [key |-> Chars("TURQU") \o <<"Iacute">> \o Chars("A"), code |-> Chars("827")],
  K("TURKEY", "827"), K("TUR", "827"), K("CROACIA", "198"), K("CROATIA", "198"),
  K("HRV", "198"), K("SERBIA", "729"), K("SRB", "729"), K("BOSNIA", "99"),
  K("BOSNIA HERZEGOVINA", "99"), K("BOSNIA AND HERZEGOVINA", "99"), K("BIH", "99"),
  K("MONTENEGRO", "499"), K("MNE", "499"), K("ESLOVENIA", "248"), K("SLOVENIA", "248"),
  K("SVN", "248"), K("MACEDONIA", "448"), K("ARY MACEDONIA", "448"),
  K("NORTH MACEDONIA", "448"), K("MKD", "448"), K("REPUBLICA DE MACEDONIA", "642"),
  K("ALBANIA", "17"), K("ALB", "17"), K("KOSOVO", "414"), K("LITUANIA", "429"),
  K("LITHUANIA", "429"), K("LTU", "429"), K("LETONIA", "428"), K("LATVIA", "428"),
  K("LVA", "428"), K("ESTONIA", "251"), K("EST", "251"), K("GEORGIA", "287"), K("GEO", "287"),
  K("ARMENIA", "65"), K("ARM", "65"), K("AZERBAIYAN", "75"), K("AZERBAIJAN", "75"),
  K("AZE", "75"), K("CHINA", "215"), K("CHN", "215"), K("JAPON", "399"),
  [key |-> Chars("JAP") \o <<"Oacute">> \o Chars("N"), code |-> Chars("399")],
  K("JAPAN", "399"), K("JPN", "399"), K("COREA DEL SUR", "190"), K("SOUTH KOREA", "190"),
  K("KOREA", "190"), K("KOR", "190"), K("COREA DEL NORTE", "651"), K("NORTH KOREA", "651"),
  K("PRK", "651"), K("TAIWAN", "774"), K("TWN", "774"), K("HONG KONG", "347"), K("HKG", "347"),
  K("MACAO", "447"), K("MACAU", "447"), K("MAC", "447"), K("MONGOLIA", "497"), K("MNG", "497"),
  K("TAILANDIA", "776"), K("THAILAND", "776"), K("THA", "776"), K("VIETNAM", "855"),
  K("VIET NAM", "855"), K("VNM", "855"), K("FILIPINAS", "267"), K("PHILIPPINES", "267"),
  K("PHL", "267"), K("INDONESIA", "365"), K("IDN", "365"), K("MALASIA", "455"),
  K("MALAYSIA", "455"), K("MYS", "455"), K("SINGAPUR", "741"), K("SINGAPORE", "741"),
  K("SGP", "741"), K("MYANMAR", "507"), K("BIRMANIA", "507"), K("BURMA", "507"),
  K("MMR", "507"), K("CAMBOYA", "141"), K("CAMBODIA", "141"), K("KAMPUCHEA", "141"),
  K("KHM", "141"), K("LAOS", "420"), K("LAO", "420"), K("BRUNEI", "108"),
  K("BRUNEI DARUSSALAM", "108"), K("BRN", "108"), K("TIMOR ORIENTAL", "783"),
  K("EAST TIMOR", "783"), K("TIMOR LESTE", "783"), K("TLS", "783"), K("INDIA", "361"),
  K("IND", "361"), K("PAKISTAN", "576"), K("PAK", "576"), K("BANGLADESH", "81"),
  K("BGD", "81"), K("SRI LANKA", "750"), K("LKA", "750"), K("CEILAN", "750"),
  K("NEPAL", "517"), K("NPL", "517"), K("BUTAN", "117"), K("BHUTAN", "117"), K("BTN", "117"),
  K("MALDIVAS", "461"), K("MALDIVES", "461"), K("MDV", "461"), K("AFGANISTAN", "13"),
  K("AFGHANISTAN", "13"), K("AFG", "13"), K("KAZAJISTAN", "406"), K("KAZAKHSTAN", "406"),
  K("KAZ", "406"), K("UZBEKISTAN", "847"), K("UZB", "847"), K("TURKMENISTAN", "829"),
  K("TKM", "829"), K("KIRGUISTAN", "412"), K("KYRGYZSTAN", "412"), K("KGZ", "412"),
  K("TAYIKISTAN", "775"), K("TAJIKISTAN", "775"), K("TJK", "775"), K("ISRAEL", "383"),
  K("ISR", "383"), K("PALESTINA", "600"), K("PALESTINE", "600"), K("PSE", "600"),
  K("LIBANO", "431"), K("LEBANON", "431"), K("LBN", "431"), K("SIRIA", "744"),
  K("SYRIA", "744"), K("SYR", "744"), K("JORDANIA", "403"), K("JORDAN", "403"),
  K("JOR", "403"), K("IRAQ", "369"), K("IRQ", "369"), K("IRAK", "369"), K("IRAN", "372"),
  K("IRN", "372"), K("ARABIA SAUDITA", "55"), K("SAUDI ARABIA", "55"), K("SAU", "55"),
  K("EMIRATOS ARABES UNIDOS", "244"), K("UNITED ARAB EMIRATES", "244"), K("UAE", "244"),
  K("ARE", "244"), K("KUWAIT", "413"), K("KWT", "413"), K("QATAR", "618"), K("QAT", "618"),
  K("BAHREIN", "80"), K("BAHRAIN", "80"), K("BHR", "80"), K("OMAN", "542"), K("OMN", "542"),
  K("YEMEN", "880"), K("YEM", "880"), K("CHIPRE", "221"), K("CYPRUS", "221"), K("CYP", "221"),
  K("AUSTRALIA", "69"), K("AUS", "69"), K("NUEVA ZELANDA", "540"), K("NEW ZEALAND", "540"),
  K("NZL", "540"), K("PAPUA NUEVA GUINEA", "582"), K("PAPUA NEW GUINEA", "582"),
  K("PNG", "582"), K("FIYI", "255"), K("FIJI", "255"), K("FJI", "255"),
  K("ISLAS SALOMON", "395"), K("SOLOMON ISLANDS", "395"), K("SLB", "395"), K("VANUATU", "849"),
  K("VUT", "849"), K("SAMOA", "699"), K("WSM", "699"), K("SAMOA AMERICANA", "698"),
  K("AMERICAN SAMOA", "698"), K("ASM", "698"), K("TONGA", "810"), K("TON", "810"),
  K("KIRIBATI", "411"), K("KIR", "411"), K("TUVALU", "828"), K("TUV", "828"),
  K("NAURU", "508"), K("NRU", "508"), K("PALAOS", "578"), K("PALAU", "578"), K("PLW", "578"),
  K("MICRONESIA", "503"), K("FSM", "503"), K("ISLAS MARSHALL", "475"),
  K("MARSHALL ISLANDS", "475"), K("MHL", "475"), K("GUAM", "339"), K("GUM", "339"),
  K("ISLAS MARIANAS DEL NORTE", "392"), K("NORTHERN MARIANA ISLANDS", "392"), K("MNP", "392"),
  K("NUEVA CALEDONIA", "539"), K("NEW CALEDONIA", "539"), K("NCL", "539"),
  K("POLINESIA FRANCESA", "609"), K("FRENCH POLYNESIA", "609"), K("PYF", "609"),
  K("WALLIS Y FUTUNA", "394"), K("WALLIS AND FUTUNA", "394"), K("WLF", "394"),
  K("ISLAS COOK", "388"), K("COOK ISLANDS", "388"), K("COK", "388"), K("NIUE", "531"),
  K("NIU", "531"), K("TOKELAU", "812"), K("TKL", "812"), K("ISLAS PITCAIRN", "381"),
  K("PITCAIRN", "381"), K("PCN", "381"), K("NORFOLK", "163"), K("NORFOLK ISLAND", "163"),
  K("NFK", "163"), K("ISLAS COCOS", "178"), K("COCOS KEELING ISLANDS", "178"), K("CCK", "178"),
  K("ISLA DE NAVIDAD", "387"), K("CHRISTMAS ISLAND", "387"), K("CXR", "387"),
  K("EGIPTO", "240"), K("EGYPT", "240"), K("EGY", "240"), K("LIBIA", "438"), K("LIBYA", "438"),
  K("LBY", "438"), K("TUNEZ", "820"), K("TUNISIA", "820"), K("TUN", "820"), K("ARGELIA", "59"),
  K("ALGERIA", "59"), K("DZA", "59"), K("MARRUECOS", "474"), K("MOROCCO", "474"),
  K("MAR", "474"), K("SAHARA OCCIDENTAL", "680"), K("WESTERN SAHARA", "680"), K("ESH", "680"),
  K("SUDAN", "759"), K("SDN", "759"), K("NIGERIA", "525"), K("NGA", "525"), K("NIGER", "528"),
  K("NER", "528"), K("GHANA", "289"), K("GHA", "289"), K("COSTA DE MARFIL", "193"),
  K("COTE D'IVOIRE", "193"), K("IVORY COAST", "193"), K("CIV", "193"), K("SENEGAL", "728"),
  K("SEN", "728"), K("MALI", "464"), K("MLI", "464"), K("BURKINA FASO", "113"),
  K("BFA", "113"), K("GUINEA", "329"), K("GIN", "329"), K("GUINEA BISSAU", "334"),
  K("GUINEA-BISSAU", "334"), K("GNB", "334"), K("SIERRA LEONA", "735"),
  K("SIERRA LEONE", "735"), K("SLE", "735"), K("LIBERIA", "434"), K("LBR", "434"),
  K("TOGO", "800"), K("TGO", "800"), K("BENIN", "89"), K("BEN", "89"), K("MAURITANIA", "488"),
  K("MRT", "488"), K("CABO VERDE", "127"), K("CAPE VERDE", "127"), K("CPV", "127"),
  K("GAMBIA", "285"), K("GMB", "285"), K("CAMERUN", "145"), K("CAMEROON", "145"),
  K("CMR", "145"), K("REPUBLICA CENTROAFRICANA", "998"), K("CENTRAL AFRICAN REPUBLIC", "998"),
  K("CAF", "998"), K("CHAD", "151"), K("TCD", "151"), K("REPUBLICA DEL CONGO", "170"),
  K("CONGO", "170"), K("COG", "170"), K("REPUBLICA DEMOCRATICA DEL CONGO", "177"),
  K("ZAIRE", "177"), K("COD", "177"), K("GUINEA ECUATORIAL", "331"),
  K("EQUATORIAL GUINEA", "331"), K("GNQ", "331"), K("GABON", "281"), K("GAB", "281"),
  K("SANTO TOME Y PRINCIPE", "720"), K("SAO TOME AND PRINCIPE", "720"), K("STP", "720"),
  K("ANGOLA", "40"), K("AGO", "40"), K("KENIA", "410"), K("KENYA", "410"), K("KEN", "410"),
  K("ETIOPIA", "253"), K("ETHIOPIA", "253"), K("ETH", "253"), K("TANZANIA", "780"),
  K("TZA", "780"), K("UGANDA", "833"), K("UGA", "833"), K("RWANDA", "675"), K("RUANDA", "675"),
  K("RWA", "675"), K("BURUNDI", "115"), K("BDI", "115"), K("SOMALIA", "748"), K("SOM", "748"),
  K("YIBUTI", "920"), K("DJIBOUTI", "920"), K("DJI", "920"), K("ERITREA", "246"),
  K("ERI", "246"), K("SEYCHELLES", "731"), K("SYC", "731"), K("MAURICIO", "485"),
  K("MAURITIUS", "485"), K("MUS", "485"), K("COMORAS", "171"), K("COMOROS", "171"),
  K("COM", "171"), K("MADAGASCAR", "450"), K("MDG", "450"), K("REUNION", "650"),
  K("REU", "650"), K("MAYOTTE", "494"), K("SUDAFRICA", "756"),
  [key |-> Chars("SUD") \o <<"Aacute">> \o Chars("FRICA"), code |-> Chars("756")],
  K("SOUTH AFRICA", "756"), K("ZAF", "756"), K("NAMIBIA", "512"), K("NAM", "512"),
  K("BOTSWANA", "101"), K("BWA", "101"), K("ZIMBABUE", "892"), K("ZIMBABWE", "892"),
  K("ZWE", "892"), K("ZAMBIA", "890"), K("ZMB", "890"), K("MOZAMBIQUE", "505"),
  K("MOZ", "505"), K("MALAWI", "458"), K("MWI", "458"), K("LESOTHO", "426"), K("LSO", "426"),
  K("SWAZILANDIA", "773"), K("ESWATINI", "773"), K("SWAZILAND", "773"), K("SWZ", "773"),
  K("ISLAS ULTRAMARINAS DE ESTADOS UNIDOS", "200"),
  K("TERRITORIO BRITANICO DEL OCEANO INDICO", "779"),
  K("BRITISH INDIAN OCEAN TERRITORY", "779"), K("IOT", "779"), K("SANTA HELENA", "708"),
  K("SAINT HELENA", "708"), K("SHN", "708"), K("ISLA DE MAN", "380"), K("ISLE OF MAN", "380"),
  K("IMN", "380"), K("JERSEY", "160"), K("JEY", "160"), K("GUERNSEY", "146"), K("GGY", "146"),
  K("ANTARTIDA", "143"), K("ANTARCTICA", "143"), K("ATA", "143"), K("ISLA BOUVET", "173"),
  K("BOUVET ISLAND", "173"), K("ISLAS HEARD Y MCDONALD", "186"), K("ISLAS MALVINAS", "191"),
  K("FALKLAND ISLANDS", "191"), K("FLK", "191"), K("TERRITORIOS AUSTRALES FRANCESES", "781"),
  K("INTERPOL", "980"), K("NACIONES UNIDAS", "981"), K("NO APLICA", "0") >>

\* the keys of a dictionary kept as the sequence of its entries
keys_of(codes) == {codes[i].key : i \in 1..Len(codes)}

\* cls.CODES[normalized]
CodeOfKey(codes, key) == codes[CHOOSE i \in 1..Len(codes) : codes[i].key = key].code

\* re.sub(r'[^A-Z...\s]', '', text): only capital letters (the accented
\* vowels, N with tilde and U with diaeresis included) and whitespace stay
RECURSIVE keep_letters(_)
keep_letters(s) ==
  IF s = <<>> THEN <<>>
  ELSE IF IsUpper(Head(s)) \/ Head(s) \in WS
    THEN <<Head(s)>> \o keep_letters(Tail(s))
  ELSE keep_letters(Tail(s))

\* re.sub(r'\s+', ' ', text)
RECURSIVE collapse_ws(_)
collapse_ws(s) ==
  IF s = <<>> THEN <<>>
  ELSE IF Head(s) \in WS THEN <<SP>> \o collapse_ws(lstrip(s))
  ELSE <<Head(s)>> \o collapse_ws(Tail(s))

\* the normalization of CountryCodes.get_code and ColombianCities
normalize_country(t) == strip(collapse_ws(keep_letters(strip(upper(t)))))

\* the condition of the containment loop of get_code
PartialMatch(n, key) == IsSubstring(n, key) \/ IsSubstring(key, n)

\* the mutant looks for the text inside a key only, not for a key inside
\* the text
first_partial_one_way(codes, n) ==
  IF \E i \in 1..Len(codes) : IsSubstring(n, codes[i].key)
  THEN CHOOSE i \in 1..Len(codes) :
         /\ IsSubstring(n, codes[i].key)
         /\ \A j \in 1..(i - 1) : ~IsSubstring(n, codes[j].key)
  ELSE 0

\* the first entry, in dictionary order, whose key contains the text or is
\* contained in it (0: none)
first_partial(codes, n) ==
  IF \E i \in 1..Len(codes) : PartialMatch(n, codes[i].key)
  THEN CHOOSE i \in 1..Len(codes) :
         /\ PartialMatch(n, codes[i].key)
         /\ \A j \in 1..(i - 1) : ~PartialMatch(n, codes[j].key)
  ELSE 0

\* the first entry, in dictionary order, whose key contains the word (0: none)
first_containing(codes, w) ==
  IF \E i \in 1..Len(codes) : IsSubstring(w, codes[i].key)
  THEN CHOOSE i \in 1..Len(codes) :
         /\ IsSubstring(w, codes[i].key)
         /\ \A j \in 1..(i - 1) : ~IsSubstring(w, codes[j].key)
  ELSE 0

MinWordLen == 3

\* the keyword loop of get_code: the first word of at least three
\* characters that occurs in a key decides
RECURSIVE first_word_hit(_, _, _)
first_word_hit(codes, words, k) ==
  IF k > Len(words) THEN 0
  ELSE IF Len(words[k]) >= MinWordLen /\ first_containing(codes, words[k]) # 0
    THEN first_containing(codes, words[k])
  ELSE first_word_hit(codes, words, k + 1)

CodeRet(code, confidence) == [code |-> code, confidence |-> confidence]

\* the body of get_code; codes is cls.CODES
code_in(codes, cv) ==
  IF ~truthy(cv) \/ is_nan_or_empty(cv) THEN CodeRet(<<>>, "NONE")
  ELSE
    LET normalized == normalize_country(to_str(cv)) IN
    IF normalized \in keys_of(codes) THEN CodeRet(CodeOfKey(codes, normalized), "HIGH")
    ELSE
      LET i == first_partial(codes, normalized) IN
      IF i # 0 THEN CodeRet(codes[i].code, "MEDIUM")
      ELSE
        LET j == first_word_hit(codes, split(normalized), 1) IN
        IF j # 0 THEN CodeRet(codes[j].code, "LOW")
        ELSE CodeRet(<<>>, "NONE")

\* CountryCodes.get_code
get_code(cv) == code_in(CODES, cv)

HomeCountryCode == Chars("169")

\* CountryCodes.is_colombia
is_colombia(cv) == get_code(cv).code = HomeCountryCode

----------------------------------------------------------------------------
(* ColombianCities *)

\* ColombianCities.CITIES, in the order of the dictionary
CITIES == <<
  K("MEDELLIN", "5001"),
  [key |-> Chars("MEDELL") \o <<"Iacute">> \o Chars("N"), code |-> Chars("5001")],
  K("BOGOTA", "11001"), [key |-> Chars("BOGOT") \o <<"Aacute">>, code |-> Chars("11001")],
  K("SANTA FE DE BOGOTA", "11001"), K("CALI", "76001"), K("SANTIAGO DE CALI", "76001"),
  K("BARRANQUILLA", "8001"), K("CARTAGENA", "13001"), K("CARTAGENA DE INDIAS", "13001"),
  K("SANTA MARTA", "47001"), K("BUCARAMANGA", "68001"), K("PEREIRA", "66001"),
  K("MANIZALES", "17001"), K("CUCUTA", "54001"),
  [key |-> Chars("C") \o <<"Uacute">> \o Chars("CUTA"), code |-> Chars("54001")],
  K("IBAGUE", "73001"), [key |-> Chars("IBAGU") \o <<"Eacute">>, code |-> Chars("73001")],
  K("VILLAVICENCIO", "50001"), K("PASTO", "52001"), K("SAN JUAN DE PASTO", "52001"),
  K("MONTERIA", "23001"),
  [key |-> Chars("MONTER") \o <<"Iacute">> \o Chars("A"), code |-> Chars("23001")],
  K("NEIVA", "41001"), K("ARMENIA", "63001"), K("VALLEDUPAR", "20001"), K("POPAYAN", "19001"),
  [key |-> Chars("POPAY") \o <<"Aacute">> \o Chars("N"), code |-> Chars("19001")],
  K("SINCELEJO", "70001"), K("TUNJA", "15001"), K("RIOHACHA", "44001"), K("QUIBDO", "27001"),
  [key |-> Chars("QUIBD") \o <<"Oacute">>, code |-> Chars("27001")], K("FLORENCIA", "18001"),
  K("YOPAL", "85001"), K("MOCOA", "86001"), K("LETICIA", "91001"), K("ARAUCA", "81001"),
  K("INIRIDA", "94001"),
  [key |-> Chars("IN") \o <<"Iacute">> \o Chars("RIDA"), code |-> Chars("94001")],
  K("MITU", "97001"), [key |-> Chars("MIT") \o <<"Uacute">>, code |-> Chars("97001")],
  K("PUERTO CARRENO", "99001"),
  [key |-> Chars("PUERTO CARRE") \o <<"Ntilde">> \o Chars("O"), code |-> Chars("99001")],
  K("SAN JOSE DEL GUAVIARE", "95001"),
  [key |-> Chars("SAN JOS") \o <<"Eacute">> \o Chars(" DEL GUAVIARE"), code |-> Chars("95001")],
  K("SAN ANDRES", "88001"),
  [key |-> Chars("SAN ANDR") \o <<"Eacute">> \o Chars("S"), code |-> Chars("88001")],
  K("SAN ANDRES ISLA", "88001"), K("PROVIDENCIA", "88564"), K("BUGA", "76111"),
  K("GUADALAJARA DE BUGA", "76111"), K("BUENAVENTURA", "76109"), K("BARICHARA", "68079"),
  K("VILLA DE LEYVA", "15407"), K("GUATAPE", "5321"),
  [key |-> Chars("GUATAP") \o <<"Eacute">>, code |-> Chars("5321")], K("JARDIN", "5364"),
  [key |-> Chars("JARD") \o <<"Iacute">> \o Chars("N"), code |-> Chars("5364")],
  K("SALENTO", "63690"), K("FILANDIA", "63272"), K("SANTA FE DE ANTIOQUIA", "5042"),
  K("SANTAFE DE ANTIOQUIA", "5042"), K("RIONEGRO", "5615"), K("ENVIGADO", "5266"),
  K("ITAGUI", "5360"),
  [key |-> Chars("ITAG") \o <<"Udiaeresis">> \o <<"Iacute">>, code |-> Chars("5360")],
  K("BELLO", "5088"), K("SABANETA", "5631"), K("LA CEJA", "5376"), K("MARINILLA", "5440"),
  K("EL RETIRO", "5607"), K("RETIRO", "5607"), K("GIRARDOTA", "5308"), K("COPACABANA", "5212"),
  K("ZIPAQUIRA", "25899"),
  [key |-> Chars("ZIPAQUIR") \o <<"Aacute">>, code |-> Chars("25899")], K("CHIA", "25175"),
  [key |-> Chars("CH") \o <<"Iacute">> \o Chars("A"), code |-> Chars("25175")],
  K("CAJICA", "25126"), [key |-> Chars("CAJIC") \o <<"Aacute">>, code |-> Chars("25126")],
  K("SOACHA", "25754"), K("GIRARDOT", "25307"), K("MELGAR", "73449"), K("VILLETA", "25873"),
  K("LA MESA", "25386"), K("FUSAGASUGA", "25290"),
  [key |-> Chars("FUSAGASUG") \o <<"Aacute">>, code |-> Chars("25290")], K("PALMIRA", "76520"),
  K("TULUA", "76834"), [key |-> Chars("TULU") \o <<"Aacute">>, code |-> Chars("76834")],
  K("CARTAGO", "76147"), K("JAMUNDI", "76364"),
  [key |-> Chars("JAMUND") \o <<"Iacute">>, code |-> Chars("76364")], K("YUMBO", "76892"),
  K("SOLEDAD", "8758"), K("MALAMBO", "8433"), K("TURBACO", "13836"), K("MAGANGUE", "13430"),
  [key |-> Chars("MAGANGU") \o <<"Eacute">>, code |-> Chars("13430")], K("LORICA", "23417"),
  K("CERETE", "23162"), [key |-> Chars("CERET") \o <<"Eacute">>, code |-> Chars("23162")],
  K("SOGAMOSO", "15759"), K("DUITAMA", "15238"), K("PAIPA", "15516"), K("IPIALES", "52356"),
  K("TUMACO", "52835"), K("COLOMBIA", "169")
>>

CityMinLen == 5

\* a city test that also takes a text that stands inside a city key
is_colombian_city_both_ways(cv) ==
  IF ~truthy(cv) \/ is_nan_or_empty(cv) THEN FALSE
  ELSE LET normalized == normalize_country(to_str(cv)) IN
       \E i \in 1..Len(CITIES) :
         IsSubstring(CITIES[i].key, normalized) \/ IsSubstring(normalized, CITIES[i].key)

\* ColombianCities.is_colombian_city: whether the text names a domestic city
is_colombian_city(cv) ==
  IF ~truthy(cv) \/ is_nan_or_empty(cv) THEN FALSE
  ELSE LET normalized == normalize_country(to_str(cv)) IN
       \/ \E i \in 1..Len(CITIES) : CITIES[i].key = normalized
       \/ /\ Len(normalized) >= CityMinLen
          /\ \E i \in 1..Len(CITIES) : IsSubstring(CITIES[i].key, normalized)

\* ColombianCities.get_colombia_code_if_city
get_colombia_code_if_city(cv) ==
  IF is_colombian_city(cv) THEN CodeRet(HomeCountryCode, "HIGH")
  ELSE CodeRet(<<>>, "NONE")

----------------------------------------------------------------------------
(* DocumentTypes *)

\* DocumentTypes.CODES, in the order of the dictionary
DOC_TYPE_CODES == <<
  K("PASAPORTE", "3"), K("PASSPORT", "3"), K("PAS", "3"), K("PP", "3"),
  K("CEDULA DE EXTRANJERIA", "5"), K("CEDULA EXTRANJERIA", "5"), K("CE", "5"),
  K("CARNE DIPLOMATICO", "46"), K("DIPLOMATIC", "46"), K("DIPLOMATICO", "46"),
  K("DOCUMENTO EXTRANJERO", "10"), K("FOREIGN DOCUMENT", "10"), K("PPT", "52"),
  K("PERMISO PROTECCION TEMPORAL", "52"), K("VISA", "10"), K("DNI", "3"), K("ID", "3"),
  K("NATIONAL ID", "3")
>>

DefaultDocType == Chars("3")

\* any(word in normalized for word in words)
AnyWordIn(words, normalized) == \E w \in words : IsSubstring(Chars(w), normalized)

\* DocumentTypes.get_code
doc_type_code(tv) ==
  IF ~truthy(tv) \/ is_nan_or_empty(tv) THEN CodeRet(DefaultDocType, "LOW")
  ELSE
    LET normalized == strip(upper(to_str(tv)))
        Hit(i) == PartialMatch(normalized, DOC_TYPE_CODES[i].key)
    IN IF \E i \in 1..Len(DOC_TYPE_CODES) : Hit(i)
       THEN CodeRet(DOC_TYPE_CODES[CHOOSE i \in 1..Len(DOC_TYPE_CODES) :
                                     Hit(i) /\ \A j \in 1..(i - 1) : ~Hit(j)].code,
                    "HIGH")
       ELSE IF AnyWordIn({"PASAP", "PASSPO", "PP"}, normalized)
         THEN CodeRet(Chars("3"), "MEDIUM")
       ELSE IF AnyWordIn({"CEDULA", "CE", "EXTRAN"}, normalized)
         THEN CodeRet(Chars("5"), "MEDIUM")
       ELSE IF AnyWordIn({"DIPLOM", "CARNE"}, normalized)
         THEN CodeRet(Chars("46"), "MEDIUM")
       ELSE IF AnyWordIn({"PPT", "PROTEC", "TEMPORAL"}, normalized)
         THEN CodeRet(Chars("52"), "MEDIUM")
       ELSE CodeRet(DefaultDocType, "LOW")

----------------------------------------------------------------------------
(* TextNormalizer *)

\* the characters re.sub(r'[^a-zA-Z...\s\-\']', '', text) keeps
IsNameChar(c) == IsLower(c) \/ IsUpper(c) \/ c \in WS \/ c \in {"-", "'"}

RECURSIVE keep_name_chars(_)
keep_name_chars(s) ==
  IF s = <<>> THEN <<>>
  ELSE IF IsNameChar(Head(s)) THEN <<Head(s)>> \o keep_name_chars(Tail(s))
  ELSE keep_name_chars(Tail(s))

\* TextNormalizer.normalize_name
normalize_name(v) ==
  IF ~truthy(v) \/ is_nan_or_empty(v) THEN <<>>
  ELSE upper(strip(collapse_ws(keep_name_chars(to_str(v)))))

\* sep.join(parts)
RECURSIVE join(_, _)
join(sep, parts) ==
  IF parts = <<>> THEN <<>>
  ELSE IF Len(parts) = 1 THEN parts[1]
  ELSE parts[1] \o sep \o join(sep, Tail(parts))

\* TextNormalizer.split_full_name: (primer_apellido, segundo_apellido, nombres)
split_full_name(v) ==
  IF ~truthy(v) \/ is_nan_or_empty(v)
  THEN [primer |-> <<>>, segundo |-> <<>>, nombres |-> <<>>]
  ELSE
    LET parts == split(normalize_name(v))
        n == Len(parts)
    IN CASE n = 0 -> [primer |-> <<>>, segundo |-> <<>>, nombres |-> <<>>]
         [] n = 1 -> [primer |-> parts[1], segundo |-> <<>>, nombres |-> <<>>]
         [] n = 2 -> [primer |-> parts[2], segundo |-> <<>>, nombres |-> parts[1]]
         [] n = 3 -> [primer |-> parts[3], segundo |-> <<>>,
                      nombres |-> join(<<SP>>, SubSeq(parts, 1, 2))]
         [] OTHER -> [primer |-> parts[n - 1], segundo |-> parts[n],
                      nombres |-> join(<<SP>>, SubSeq(parts, 1, n - 2))]

----------------------------------------------------------------------------
(* InferenceEngine *)

\* an inference that hands the confidence of the resolver on
inferred_keeping_confidence(r) == r

\* the result of infer_nationality_from_origin, given what get_code returned
\* for the procedencia: the confidence is lowered, since the code is inferred
inferred_from(r) ==
  IF r.code # <<>>
  THEN CodeRet(r.code, IF r.confidence = "HIGH" THEN "MEDIUM" ELSE "LOW")
  ELSE CodeRet(<<>>, "NONE")

\* InferenceEngine.infer_nationality_from_origin
infer_nationality_from_origin(pv) == inferred_from(get_code(pv))

\* InferenceEngine.infer_origin_from_nationality
infer_origin_from_nationality(nv) == inferred_from(get_code(nv))

----------------------------------------------------------------------------
(* DocumentValidator.validate_document *)

MinDocLen == 5
MaxDocLen == 20

NullLikeDocs ==
  { <<"N","A","N">>, <<"N","O","N","E">>, <<"N","U","L","L">>,
    <<"N","/","A">>, <<"-">> }

validate_document(doc) ==
  IF doc = <<>> THEN [ok |-> FALSE, msg |-> "Documento vacio"]
  ELSE LET d == upper(strip(doc)) IN
    IF Len(d) < MinDocLen THEN [ok |-> FALSE, msg |-> "Documento muy corto"]
    ELSE IF Len(d) > MaxDocLen THEN [ok |-> FALSE, msg |-> "Documento muy largo"]
    ELSE IF d \in NullLikeDocs THEN [ok |-> FALSE, msg |-> "Documento invalido"]
    ELSE IF Cardinality(char_set(remove_char(d, "-"))) = 1
      THEN [ok |-> FALSE, msg |-> "Documento con patron invalido"]
    ELSE [ok |-> TRUE, msg |-> "OK"]

----------------------------------------------------------------------------
(* SireConverter *)

\* FieldResult(value, confidence); a GuestRecord field left at None is Unset
FR(value, confidence) == [set |-> TRUE, value |-> value, confidence |-> confidence]
Unset == [set |-> FALSE, value |-> <<>>, confidence |-> "NONE"]

\* "not field_result or not field_result.value"
Missing(fr) == ~fr.set \/ fr.value = <<>>

\* SireConverter._get_value
get_value(frame, r, cmap, field) ==
  IF field \notin DOMAIN cmap THEN NoneV
  ELSE CellOf(frame, r, cmap[field].col)

NullDocTexts == { Chars("nan"), Chars("none"), <<>>, Chars("null") }

\* the document text of _process_guest: str(doc_val).strip() if doc_val else "",
\* blanked when it is one of the null words
doc_text(doc_val) ==
  LET s == IF truthy(doc_val) THEN strip(to_str(doc_val)) ELSE <<>>
  IN IF lower(s) \in NullDocTexts THEN <<>> ELSE s

\* the surnames read from the primer_apellido column
surnames_of(v) ==
  LET apellido_raw == IF truthy(v) THEN to_str(v) ELSE <<>>
      apellido_parts == split(strip(apellido_raw))
  IN IF Len(apellido_parts) >= 2
     THEN [primer |-> normalize_name(StrV(apellido_parts[1])),
           segundo |-> normalize_name(StrV(join(<<SP>>, Tail(apellido_parts))))]
     ELSE [primer |-> normalize_name(StrV(apellido_raw)), segundo |-> <<>>]

\* a names block that splits the full name whenever its column was detected
names_of_preferring_full(frame, r, cmap) ==
  LET full == split_full_name(get_value(frame, r, cmap, "nombre_completo")) IN
  IF "nombre_completo" \in DOMAIN cmap
  THEN [primer_apellido |-> FR(full.primer, "MEDIUM"),
        segundo_apellido |-> FR(full.segundo, "MEDIUM"),
        nombres |-> FR(full.nombres, "MEDIUM"),
        inferidos |-> 1]
  ELSE [primer_apellido |-> Unset, segundo_apellido |-> Unset,
        nombres |-> FR(normalize_name(get_value(frame, r, cmap, "nombres")), "HIGH"),
        inferidos |-> 0]

\* the names block of _process_guest: the three name fields and the number
\* of times it incremented stats["inferidos"]
names_of(frame, r, cmap) ==
  LET has_ap == "primer_apellido" \in DOMAIN cmap
      ap == surnames_of(get_value(frame, r, cmap, "primer_apellido"))
      primer0 == IF has_ap THEN FR(ap.primer, "HIGH") ELSE Unset
      segundo0 ==
        IF has_ap
        THEN FR(ap.segundo, IF ap.segundo # <<>> THEN "HIGH" ELSE "NONE")
        ELSE Unset
      full == split_full_name(get_value(frame, r, cmap, "nombre_completo"))
  IN IF "nombres" \in DOMAIN cmap
     THEN [primer_apellido |-> primer0, segundo_apellido |-> segundo0,
           nombres |-> FR(normalize_name(get_value(frame, r, cmap, "nombres")), "HIGH"),
           inferidos |-> 0]
     ELSE IF "nombre_completo" \in DOMAIN cmap /\ ~primer0.set
     THEN [primer_apellido |-> FR(full.primer, "MEDIUM"),
           segundo_apellido |-> FR(full.segundo, "MEDIUM"),
           nombres |-> FR(full.nombres, "MEDIUM"),
           inferidos |-> 1]
     ELSE [primer_apellido |-> primer0, segundo_apellido |-> segundo0,
           nombres |-> Unset, inferidos |-> 0]

\* a nationality block that prefers the procedencia whenever it resolves
nationality_from_overriding(direct, inferred, has_procedencia) ==
  IF has_procedencia /\ inferred.code # <<>>
  THEN [code |-> inferred.code, confidence |-> inferred.confidence, inferred |-> TRUE]
  ELSE [code |-> direct.code, confidence |-> direct.confidence, inferred |-> FALSE]

\* the nationality block: the code, its confidence, and whether it was
\* inferred from procedencia.  direct is what get_code returned for the
\* nationality cell, inferred what infer_nationality_from_origin returns for
\* the procedencia cell
nationality_from(direct, inferred, has_procedencia) ==
  IF direct.code = <<>> /\ has_procedencia
  THEN [code |-> inferred.code, confidence |-> inferred.confidence,
        inferred |-> inferred.code # <<>>]
  ELSE [code |-> direct.code, confidence |-> direct.confidence, inferred |-> FALSE]

nationality_of(frame, r, cmap) ==
  nationality_from(get_code(get_value(frame, r, cmap, "nacionalidad")),
                   infer_nationality_from_origin(get_value(frame, r, cmap, "procedencia")),
                   "procedencia" \in DOMAIN cmap)

\* a nationality check that lets every record through
is_home_never(code) == FALSE

\* nac_code == "169"
is_home(code) == code = HomeCountryCode

\* the column the movement date is read from
movement_field(mt) == IF mt = "E" THEN "fecha_checkin" ELSE "fecha_checkout"

\* a procedencia block without the fallback on the nationality
procedencia_from_unfilled(direct, nac_code) ==
  [value |-> direct.code,
   confidence |-> IF direct.confidence # "NONE" THEN direct.confidence ELSE "LOW",
   derived |-> FALSE]

\* the procedencia block: the value, its confidence, and whether it was
\* taken from the nationality.  direct is what get_code returned for the
\* procedencia cell
procedencia_from(direct, nac_code) ==
  LET derived == direct.code = <<>> /\ nac_code # <<>>
      proc_code == IF derived THEN nac_code ELSE direct.code
      proc_conf == IF derived THEN "LOW" ELSE direct.confidence
  IN [value |-> IF proc_code # <<>> THEN proc_code ELSE nac_code,
      confidence |-> IF proc_conf # "NONE" THEN proc_conf ELSE "LOW",
      derived |-> derived]

\* a destino block that tries the country before the domestic city
destino_from_country_first(city, as_country) ==
  LET dest == IF as_country.code = <<>> THEN city ELSE as_country
  IN FR(IF dest.code # <<>> THEN dest.code ELSE HomeCountryCode,
        IF dest.confidence # "NONE" THEN dest.confidence ELSE "LOW")

\* the destino block.  city is what get_colombia_code_if_city returned for the
\* destino cell, as_country what get_code returns for it
destino_from(city, as_country) ==
  LET dest == IF city.code = <<>> THEN as_country ELSE city
  IN FR(IF dest.code # <<>> THEN dest.code ELSE HomeCountryCode,
        IF dest.confidence # "NONE" THEN dest.confidence ELSE "LOW")

destino_of(frame, r, cmap) ==
  destino_from(get_colombia_code_if_city(get_value(frame, r, cmap, "destino")),
               get_code(get_value(frame, r, cmap, "destino")))

NoGuest ==
  [row_number |-> 0, documento |-> Unset, tipo_documento |-> Unset,
   nombres |-> Unset, primer_apellido |-> Unset, segundo_apellido |-> Unset,
   nacionalidad |-> Unset, fecha_nacimiento |-> Unset,
   fecha_movimiento |-> Unset, procedencia |-> Unset, destino |-> Unset,
   is_valid |-> FALSE, errors |-> <<>>, warnings |-> <<>>]

required_fields ==
  << [name |-> "documento", attr |-> "documento"],
     [name |-> "nombres", attr |-> "nombres"],
     [name |-> "primer_apellido", attr |-> "primer_apellido"],
     [name |-> "nacionalidad", attr |-> "nacionalidad"],
     [name |-> "fecha_movimiento", attr |-> "fecha_movimiento"],
     [name |-> "fecha_nacimiento", attr |-> "fecha_nacimiento"] >>

\* the errors of the final validation: "Falta <field>" for each required
\* field that is missing, in the order of the list
RECURSIVE falta_errors(_, _)
falta_errors(g, k) ==
  IF k > Len(required_fields) THEN <<>>
  ELSE (IF Missing(g[required_fields[k].attr])
        THEN << <<"Falta", required_fields[k].name>> >> ELSE <<>>)
       \o falta_errors(g, k + 1)

\* how _process_guest ends: it returns a GuestRecord, returns None (a
\* Colombian), or raises
Returned(g, inferidos) ==
  [outcome |-> "guest", guest |-> g, inferidos |-> inferidos, exc |-> ""]
ReturnedNone(inferidos) ==
  [outcome |-> "none", guest |-> NoGuest, inferidos |-> inferidos, exc |-> ""]
Raised(exc, inferidos) ==
  [outcome |-> "raise", guest |-> NoGuest, inferidos |-> inferidos, exc |-> exc]

NaTMessage == "NaTType does not support strftime"

\* a _process_guest that resolves the nationality and drops the domestic
\* guest before it looks at the document
guest_of_home_first(r, doc_str, tipo, names, nac, fecha_mov, fecha_nac, proc_direct, destino) ==
  LET g0 == [NoGuest EXCEPT !.row_number = r + 1]
      doc_check == validate_document(doc_str)
      inferidos == names.inferidos + (IF nac.inferred THEN 1 ELSE 0)
      proc == procedencia_from(proc_direct, nac.code)
      g1 == [g0 EXCEPT
               !.documento = FR(doc_str, "HIGH"),
               !.tipo_documento = FR(tipo.code, tipo.confidence),
               !.nombres = names.nombres,
               !.primer_apellido = names.primer_apellido,
               !.segundo_apellido = names.segundo_apellido,
               !.nacionalidad = FR(nac.code, nac.confidence),
               !.fecha_movimiento = FR(fecha_mov.value, fecha_mov.confidence),
               !.fecha_nacimiento = FR(fecha_nac.value, fecha_nac.confidence),
               !.procedencia = FR(proc.value, proc.confidence),
               !.destino = destino,
               !.warnings =
                 (IF nac.inferred
                  THEN <<"Nacionalidad inferida desde procedencia">> ELSE <<>>)
                 \o (IF proc.derived
                     THEN <<"Procedencia inferida desde nacionalidad">> ELSE <<>>)]
      errs == falta_errors(g1, 1)
  IN
  IF is_home(nac.code) THEN ReturnedNone(inferidos)
  ELSE IF ~doc_check.ok
  THEN Returned([g0 EXCEPT !.errors = << <<"Documento", doc_check.msg>> >>], 0)
  ELSE IF fecha_mov.raised \/ fecha_nac.raised THEN Raised(NaTMessage, inferidos)
  ELSE Returned([g1 EXCEPT !.errors = errs, !.is_valid = (errs = <<>>)], inferidos)

\* the body of _process_guest over the values it resolves from the row:
\* the document text, the document type, the names, the nationality, the
\* two dates, what get_code returned for the procedencia, and the destino
guest_of(r, doc_str, tipo, names, nac, fecha_mov, fecha_nac, proc_direct, destino) ==
  LET g0 == [NoGuest EXCEPT !.row_number = r + 1]
      doc_check == validate_document(doc_str)
      inferidos == names.inferidos + (IF nac.inferred THEN 1 ELSE 0)
      proc == procedencia_from(proc_direct, nac.code)
      g1 == [g0 EXCEPT
               !.documento = FR(doc_str, "HIGH"),
               !.tipo_documento = FR(tipo.code, tipo.confidence),
               !.nombres = names.nombres,
               !.primer_apellido = names.primer_apellido,
               !.segundo_apellido = names.segundo_apellido,
               !.nacionalidad = FR(nac.code, nac.confidence),
               !.fecha_movimiento = FR(fecha_mov.value, fecha_mov.confidence),
               !.fecha_nacimiento = FR(fecha_nac.value, fecha_nac.confidence),
               !.procedencia = FR(proc.value, proc.confidence),
               !.destino = destino,
               !.warnings =
                 (IF nac.inferred
                  THEN <<"Nacionalidad inferida desde procedencia">> ELSE <<>>)
                 \o (IF proc.derived
                     THEN <<"Procedencia inferida desde nacionalidad">> ELSE <<>>)]
      errs == falta_errors(g1, 1)
  IN
  IF ~doc_check.ok
  THEN Returned([g0 EXCEPT !.errors = << <<"Documento", doc_check.msg>> >>], 0)
  ELSE IF is_home(nac.code) THEN ReturnedNone(inferidos)
  ELSE IF fecha_mov.raised \/ fecha_nac.raised THEN Raised(NaTMessage, inferidos)
  ELSE Returned([g1 EXCEPT !.errors = errs, !.is_valid = (errs = <<>>)], inferidos)

\* SireConverter._process_guest on row r of the dataset (the row at index
\* r - 1 of the default RangeIndex); inferidos is the number of increments
\* of stats["inferidos"] it made before it ended
process_guest(frame, r, cmap, mt) ==
  guest_of(r,
           doc_text(get_value(frame, r, cmap, "numero_documento")),
           doc_type_code(get_value(frame, r, cmap, "tipo_documento")),
           names_of(frame, r, cmap),
           nationality_of(frame, r, cmap),
           parse(get_value(frame, r, cmap, movement_field(mt))),
           parse(get_value(frame, r, cmap, "fecha_nacimiento")),
           get_code(get_value(frame, r, cmap, "procedencia")),
           destino_of(frame, r, cmap))

\* a key that also tells the guests apart by their given names
unique_key_by_name(g, mt) ==
  g.documento.value \o <<"|">> \o g.nombres.value \o <<"|">> \o <<mt>>

\* f"{guest.documento.value}|{guest.fecha_movimiento.value}|{movement_type}"
unique_key(g, mt) ==
  g.documento.value \o <<"|">> \o g.fecha_movimiento.value \o <<"|">> \o <<mt>>

NumFields == 13

\* the fields list of convert, in its order
fields_of(g, hc, cc, mt) ==
  << hc, cc,
     IF g.tipo_documento.set THEN g.tipo_documento.value ELSE DefaultDocType,
     g.documento.value,
     IF g.nacionalidad.set THEN g.nacionalidad.value ELSE <<>>,
     IF g.primer_apellido.set THEN g.primer_apellido.value ELSE <<>>,
     IF g.segundo_apellido.set THEN g.segundo_apellido.value ELSE <<>>,
     IF g.nombres.set THEN g.nombres.value ELSE <<>>,
     <<mt>>,
     IF g.fecha_movimiento.set THEN g.fecha_movimiento.value ELSE <<>>,
     IF g.procedencia.set THEN g.procedencia.value ELSE <<>>,
     IF g.destino.set THEN g.destino.value ELSE HomeCountryCode,
     IF g.fecha_nacimiento.set THEN g.fecha_nacimiento.value ELSE <<>> >>

\* "\t".join(fields)
sire_line(g, hc, cc, mt) == join(<<TAB>>, fields_of(g, hc, cc, mt))

\* f"Fila {row}: {text}": an entry of the errors or warnings list, kept as
\* the row number and the text
Tagged(row, texts) == [k \in 1..Len(texts) |-> [row |-> row, text |-> texts[k]]]

\* the state convert's loop works on
LoopState(st, errs, warns, ls, keys) ==
  [stats |-> st, errors |-> errs, warnings |-> warns, lines |-> ls,
   seen_keys |-> keys]

Bump(st, key, n) == [st EXCEPT ![key] = @ + n]

\* an exception handler that records the error without counting the row
on_exception_uncounted(s, i, exc) ==
  [s EXCEPT !.errors = Append(@, [row |-> i + 2, text |-> <<"Error inesperado", exc>>])]

\* the except clause of the loop; i is the row's index
on_exception(s, i, exc) ==
  [s EXCEPT !.stats = Bump(@, "skipped", 1),
            !.errors = Append(@, [row |-> i + 2, text |-> <<"Error inesperado", exc>>])]

\* a duplicates branch that does not count the row
on_duplicate_uncounted(s) == s

\* the branch of a key that was already seen
on_duplicate(s) == [s EXCEPT !.stats = Bump(@, "duplicados", 1)]

\* a try block that puts the new line before the lines of the earlier rows
on_return_prepending(s, res, hc, cc, mt) ==
  IF res.outcome = "none" THEN [s EXCEPT !.stats = Bump(@, "colombianos", 1)]
  ELSE IF ~res.guest.is_valid
    THEN [s EXCEPT !.stats = Bump(@, "skipped", 1),
                   !.errors = @ \o Tagged(res.guest.row_number, res.guest.errors)]
  ELSE IF unique_key(res.guest, mt) \in s.seen_keys THEN on_duplicate(s)
  ELSE [s EXCEPT !.seen_keys = @ \cup {unique_key(res.guest, mt)},
                 !.lines = <<sire_line(res.guest, hc, cc, mt)>> \o @,
                 !.stats = Bump(@, "valid", 1),
                 !.warnings = @ \o Tagged(res.guest.row_number, res.guest.warnings)]

\* the try block of the loop after _process_guest returned
on_return(s, res, hc, cc, mt) ==
  IF res.outcome = "none" THEN [s EXCEPT !.stats = Bump(@, "colombianos", 1)]
  ELSE IF ~res.guest.is_valid
    THEN [s EXCEPT !.stats = Bump(@, "skipped", 1),
                   !.errors = @ \o Tagged(res.guest.row_number, res.guest.errors)]
  ELSE IF unique_key(res.guest, mt) \in s.seen_keys THEN on_duplicate(s)
  ELSE [s EXCEPT !.seen_keys = @ \cup {unique_key(res.guest, mt)},
                 !.lines = Append(@, sire_line(res.guest, hc, cc, mt)),
                 !.stats = Bump(@, "valid", 1),
                 !.warnings = @ \o Tagged(res.guest.row_number, res.guest.warnings)]

\* the loop body once _process_guest has ended with res
after_guest(s, res, i, hc, cc, mt) ==
  IF res.outcome = "raise"
  THEN on_exception([s EXCEPT !.stats = Bump(@, "inferidos", res.inferidos)], i, res.exc)
  ELSE on_return([s EXCEPT !.stats = Bump(@, "inferidos", res.inferidos)], res, hc, cc, mt)

\* one iteration of the loop of convert on the row at index i
loop_body(s, frame, i, cmap, hc, cc, mt) ==
  after_guest(s, process_guest(frame, i + 1, cmap, mt), i, hc, cc, mt)

\* self.stats of a new instance
NoStats ==
  [total |-> 0, valid |-> 0, skipped |-> 0, colombianos |-> 0,
   duplicados |-> 0, inferidos |-> 0]

\* the loop of convert from the row at index i on
RECURSIVE run_rows(_, _, _, _, _, _, _)
run_rows(s, frame, i, cmap, hc, cc, mt) ==
  IF i >= Len(frame.rows) THEN s
  ELSE run_rows(loop_body(s, frame, i, cmap, hc, cc, mt), frame, i + 1, cmap, hc, cc, mt)

\* SireConverter(hc, cc).convert(frame, mt) on a new instance: the lines it
\* returns and the stats, errors and warnings of the instance afterwards
convert(frame, hc, cc, mt) ==
  run_rows(LoopState([NoStats EXCEPT !.total = Len(frame.rows)], <<>>, <<>>, <<>>, {}),
           frame, 0, detect_columns(frame), hc, cc, mt)

----------------------------------------------------------------------------
(* Each entry point is exercised by a specification of its own; the state  *)
(* of the entry points it does not run stays at these values.              *)

NoDocResult == [ok |-> FALSE, msg |-> ""]
ValidateIdle == doc_number = <<>> /\ doc_result = NoDocResult

NoDateResult == [value |-> <<>>, confidence |-> "", raised |-> FALSE]
DateIdle == date_val = NoneV /\ date_result = NoDateResult

NoCodeResult == [code |-> <<>>, confidence |-> ""]
CountryIdle == country = NoneV /\ code_result = NoCodeResult

NoFrame == [columns |-> <<>>, rows |-> <<>>]
DetectIdle == df = NoFrame /\ column_map = <<>>

NoTypeResult == [code |-> <<>>, confidence |-> ""]
TypeIdle == doc_type = NoneV /\ type_result = NoTypeResult

NoNameParts == [primer |-> <<>>, segundo |-> <<>>, nombres |-> <<>>]
NameIdle == full_name = NoneV /\ name_parts = NoNameParts

NoMatchResult == [matches |-> FALSE, score |-> [n |-> 0, d |-> 1]]
MatchIdle == column_name = <<>> /\ pattern_list = <<>> /\ match_result = NoMatchResult

\* output_lines = []
NoLines == [file |-> "", selection |-> 0]

\* SireTerminal.__init__: nothing selected, nothing processed, no thread
TerminalIdle ==
  /\ file_path = "" /\ process_btn = "normal" /\ download_btn = FALSE
  /\ output_lines = NoLines /\ converter = 0
  /\ thread = "none" /\ thread_df = "" /\ thread_lines = NoLines
  /\ idle_calls = <<>> /\ selections = 0 /\ runs = 0 /\ started_at = 0
  /\ written = {} /\ none_read = FALSE

ConvertIdle ==
  /\ hotel_code = <<>> /\ city_code = <<>> /\ movement_type = "E"
  /\ stats = NoStats /\ errors = <<>> /\ warnings = <<>>
  /\ lines = <<>> /\ seen_keys = {} /\ idx = 0 /\ earlier_keys = {}

----------------------------------------------------------------------------
(* The documents given to validate_document: a short free prefix followed   *)
(* by a run of one repeated character, which reaches every length from 0   *)
(* to beyond MaxDocLen, plus the null-like tokens themselves.              *)

MaxPrefixLen == 2
MaxRunLen == 21

DocAlphabet == {"A", "b", "1", "-", SP}
RunChars == {"1", "-", "A"}

DocPrefixes == UNION {[1..k -> DocAlphabet] : k \in 0..MaxPrefixLen}

DocInputs ==
  {p \o repeat(c, n) : p \in DocPrefixes, c \in RunChars, n \in 0..MaxRunLen}
    \cup NullLikeDocs \cup {lower(t) : t \in NullLikeDocs}

InitValidate ==
  /\ pc = "call"
  /\ doc_number \in DocInputs
  /\ doc_result = NoDocResult
  /\ DateIdle /\ CountryIdle /\ DetectIdle /\ ConvertIdle
  /\ TypeIdle /\ NameIdle /\ MatchIdle
  /\ TerminalIdle

CallValidate ==
  /\ pc = "call"
  /\ doc_result' = validate_document(doc_number)
  /\ pc' = "returned"
  /\ UNCHANGED <<doc_number, dateVars, countryVars, detectVars, convertVars,
                 typeVars, nameVars, matchVars,
                 terminalVars>>

NextValidate == CallValidate

SpecValidate == InitValidate /\ [][NextValidate]_vars

----------------------------------------------------------------------------
(* C8 *)

ValidateReturned == pc = "returned"

\* all characters of s are the same character (of no characters too)
AllIdentical(s) == \A i, j \in 1..Len(s) : s[i] = s[j]

\* The rules of the claim, in its order, on the stripped upper-cased value
ClaimedValidation(doc) ==
  LET d == upper(strip(doc)) IN
  IF doc = <<>> THEN "Documento vacio"
  ELSE IF Len(d) < 5 THEN "Documento muy corto"
  ELSE IF Len(d) > 20 THEN "Documento muy largo"
  ELSE IF d \in NullLikeDocs THEN "Documento invalido"
  ELSE IF AllIdentical(remove_char(d, "-")) THEN "Documento con patron invalido"
  ELSE "OK"

\* C8: validate_document reports the first failing rule of: empty, shorter
\* than 5, longer than 20, null-like token, all characters identical once
\* the hyphens are stripped; every other value is valid.
C8_ValidateRules ==
  ValidateReturned =>
    /\ doc_result.msg = ClaimedValidation(doc_number)
    /\ doc_result.ok = (ClaimedValidation(doc_number) = "OK")

----------------------------------------------------------------------------
(* The values given to DateParser.parse: numeric dates written in the      *)
(* layouts of the pattern list, with years on both sides of the two ends   *)
(* of the accepted range, with and without zero padding and a time of day; *)
(* native timestamps over the same dates; NaT, NaN, None and other texts.  *)

YearMargin == 1

DateYears ==
  UNION {(b - YearMargin)..(b + YearMargin) : b \in {MinYear, CurrentYear + 1}}
DateDays == {1, 12, 29, 31}
DateMonths == {1, 2, 12, 13}

Num2(n, padded) == IF padded \/ n >= 10 THEN Pad2(n) ELSE <<Digits[n + 1]>>

TimeSuffix == <<SP,"1","0",":","3","0",":","0","0">>

DateTexts ==
  {(IF yearFirst
      THEN Pad4(y) \o <<sep>> \o Num2(a, padded) \o <<sep>> \o Num2(b, padded)
      ELSE Num2(a, padded) \o <<sep>> \o Num2(b, padded) \o <<sep>> \o Pad4(y))
     \o (IF timed THEN TimeSuffix ELSE <<>>) :
   y \in DateYears, a \in DateDays, b \in DateMonths, sep \in {"/", "-", "."},
   yearFirst \in BOOLEAN, padded \in BOOLEAN, timed \in BOOLEAN}

OtherDateTexts ==
  { <<>>, <<SP>>, <<"n","a","n">>, <<"N","a","T">>, <<"a","b","c">>,
    <<"3","1",SP,"D","e","c",SP,"2","0","2","4">>,
    <<"3","1",TAB,"D","e","c",TAB,"1","8","9","9">>,
    <<"3","1",TAB,"d","e","c","e","m","b","e","r",TAB,"1","9","0","0">>,
    <<"0","1","/","0","1","/","0","0","0","0">>,
    <<"1","/","1","/","9","9">> }

DateInputs ==
  {StrV(t) : t \in DateTexts \cup OtherDateTexts}
    \cup {TsV(y, m, d) : y \in DateYears, m \in {1, 12}, d \in {1, 31}}
    \cup {NoneV, NanV, NatV}

InitDate ==
  /\ pc = "call"
  /\ date_val \in DateInputs
  /\ date_result = NoDateResult
  /\ ValidateIdle /\ CountryIdle /\ DetectIdle /\ ConvertIdle
  /\ TypeIdle /\ NameIdle /\ MatchIdle
  /\ TerminalIdle

CallParse ==
  /\ pc = "call"
  /\ date_result' = parse(date_val)
  /\ pc' = "returned"
  /\ UNCHANGED <<date_val, validateVars, countryVars, detectVars, convertVars,
                 typeVars, nameVars, matchVars,
                 terminalVars>>

NextDate == CallParse

SpecDate == InitDate /\ [][NextDate]_vars

----------------------------------------------------------------------------
(* C9 *)

\* the year a dd/mm/yyyy text carries: its last four characters
YearOfResult(t) == ParseInt(SubSeq(t, Len(t) - 3, Len(t)))

DateReturned == pc = "returned" /\ ~date_result.raised

\* C9 as stated: whatever date-like value is given to DateParser.parse, a
\* non-empty result never carries a year outside [1900, current year + 1].
C9_AnyValueYearInRange ==
  (DateReturned /\ date_result.value # <<>>) =>
    YearOfResult(date_result.value) \in MinYear..(CurrentYear + 1)

\* the year written in a numeric date text, time of day trimmed: the
\* four-digit part among the three parts around its separator
TextParts(t) ==
  LET s == IF split(t) = <<>> THEN <<>> ELSE split(t)[1]
      sep == IF "/" \in char_set(s) THEN "/"
             ELSE IF "-" \in char_set(s) THEN "-" ELSE "."
  IN split_on(s, sep)

IsCalendarDate(y, m, d) ==
  y >= 1 /\ m \in 1..12 /\ d >= 1 /\ d <= DaysInMonth(y, m)

\* the text is a numeric date of a listed layout (day-month-year or
\* month-day-year with one of / - . , or year-month-day with / or -)
\* denoting a calendar date of year y
WrittenDateOfYear(t, y) ==
  LET p == TextParts(t) IN
  /\ Len(p) = 3
  /\ \A i \in 1..3 : p[i] # <<>> /\ AllDigits(p[i])
  /\ \/ /\ Len(p[3]) = 4 /\ Len(p[1]) <= 2 /\ Len(p[2]) <= 2
        /\ ParseInt(p[3]) = y
        /\ \/ IsCalendarDate(y, ParseInt(p[2]), ParseInt(p[1]))
           \/ /\ "/" \in char_set(t)
              /\ IsCalendarDate(y, ParseInt(p[1]), ParseInt(p[2]))
     \/ /\ Len(p[1]) = 4 /\ Len(p[2]) <= 2 /\ Len(p[3]) <= 2
        /\ "." \notin char_set(t)
        /\ ParseInt(p[1]) = y
        /\ IsCalendarDate(y, ParseInt(p[2]), ParseInt(p[3]))

\* C9, amended: for a textual value, a non-empty result carries a year in
\* [1900, current year + 1]; a numeric date text of a listed layout is
\* rejected (empty result) when its year is below 1900 or above current
\* year + 1 and accepted, with that year, when it is 1900 or any other year
\* of the range.
C9_TextYearInRange ==
  (DateReturned /\ date_val.kind = "str") =>
    /\ date_result.value # <<>> =>
         YearOfResult(date_result.value) \in MinYear..(CurrentYear + 1)
    /\ \A y \in DateYears \cup {0, 99} :
         WrittenDateOfYear(date_val.s, y) =>
           IF y \in MinYear..(CurrentYear + 1)
           THEN date_result.value # <<>> /\ YearOfResult(date_result.value) = y
           ELSE date_result.value = <<>>

\* a text of year 1900 was accepted
C9_Witness ==
  /\ DateReturned /\ date_val.kind = "str"
  /\ WrittenDateOfYear(date_val.s, MinYear)
  /\ date_result.value # <<>>
  /\ YearOfResult(date_result.value) = MinYear

----------------------------------------------------------------------------
(* The values given to CountryCodes.get_code: every text of up to          *)
(* MaxCountryLen characters over a small alphabet (letters in both cases,  *)
(* a blank, a digit), longer country texts, None and NaN.                  *)

MaxCountryLen == 3

CountryAlphabet == {"P", "e", "R", "U", SP, "1", "Q"}

CountryTexts ==
  UNION {[1..k -> CountryAlphabet] : k \in 0..MaxCountryLen} \cup
  { Chars("COLOMBIA"),
    Chars("colombia"),
    Chars(" Colombia "),
    Chars("Estados  Unidos"),
    Chars("U.S.A."),
    Chars("RUGU QQ"),
    Chars("QQQQ"),
    Chars("QQ WW"),
    Chars("12"),
    Chars("Per") \o <<"uacute">>,
    Chars("COLOMBIANO"),
    Chars("co"),
    Chars("NEW YORK"),
    Chars("QQ ERU"),
    Chars("Q") \o <<TAB>> \o Chars("PERU"),
    Chars("xx colombi"),
    Chars("QRUQ URUG"),
    Chars("Espa") \o <<"ntilde">> \o Chars("a"),
    Chars("ESPA") \o <<"Ntilde">> \o Chars("A") }

CountryInputs == {StrV(t) : t \in CountryTexts} \cup {NoneV, NanV}

InitCountry ==
  /\ pc = "call"
  /\ country \in CountryInputs
  /\ code_result = NoCodeResult
  /\ ValidateIdle /\ DateIdle /\ DetectIdle /\ ConvertIdle
  /\ TypeIdle /\ NameIdle /\ MatchIdle
  /\ TerminalIdle

CallGetCode ==
  /\ pc = "call"
  /\ code_result' = get_code(country)
  /\ pc' = "returned"
  /\ UNCHANGED <<country, validateVars, dateVars, detectVars, convertVars,
                 typeVars, nameVars, matchVars,
                 terminalVars>>

NextCountry == CallGetCode

SpecCountry == InitCountry /\ [][NextCountry]_vars

----------------------------------------------------------------------------
(* C10 *)

\* the input carries a text that get_code goes on to resolve
HasCountryText(v) == v.kind = "str" /\ strip(v.s) # <<>>

KeyIndices == 1..Len(CODES)

\* the normalized text equals a table key
ExactKey(n) == \E i \in KeyIndices : CODES[i].key = n

\* the normalized text is a substring of some key, or some key of it
PartialKey(n) ==
  \E i \in KeyIndices : IsSubstring(n, CODES[i].key) \/ IsSubstring(CODES[i].key, n)

\* the whitespace-separated tokens of a text
Tokens(n) == {split(n)[k] : k \in 1..Len(split(n))}

\* some token of at least three characters occurs inside some key
TokenInKey(n) ==
  \E w \in Tokens(n) : Len(w) >= 3 /\ \E i \in KeyIndices : IsSubstring(w, CODES[i].key)

ClaimedConfidence(n) ==
  IF ExactKey(n) THEN "HIGH"
  ELSE IF PartialKey(n) THEN "MEDIUM"
  ELSE IF TokenInKey(n) THEN "LOW"
  ELSE "NONE"

\* C10: get_code resolves in strict order, first hit wins: HIGH with the
\* key's code iff the normalized text equals a key, else MEDIUM iff text and
\* some key contain one another, else LOW iff a token of length >= 3 occurs
\* in a key, else ("", NONE); a code is empty exactly when the confidence
\* is NONE.
C10_ResolutionOrder ==
  pc = "returned" =>
    /\ (code_result.code = <<>>) <=> (code_result.confidence = "NONE")
    /\ HasCountryText(country) =>
         LET n == normalize_country(country.s) IN
         /\ code_result.confidence = ClaimedConfidence(n)
         /\ ExactKey(n) =>
              \E i \in KeyIndices : CODES[i].key = n /\ CODES[i].code = code_result.code
         /\ code_result.code # <<>> =>
              \E i \in KeyIndices : CODES[i].code = code_result.code

\* a text resolved by one of its tokens only, after the exact and the
\* containment stages found nothing
C10_Witness ==
  /\ pc = "returned" /\ HasCountryText(country)
  /\ code_result.confidence = "LOW"
  /\ code_result.code # <<>>
  /\ ~PartialKey(normalize_country(country.s))

----------------------------------------------------------------------------
(* C11 *)

\* the input carries no country text: it is absent, NaN, or a text whose
\* normalized form is empty (empty, blank, or without any letter)
NoCountryText(v) ==
  \/ v.kind \in {"none", "nan"}
  \/ v.kind = "str" /\ normalize_country(v.s) = <<>>

\* C11: get_code returns ("", NONE) for every input that carries no country
\* text, and a non-empty code only when the normalized text is non-empty.
C11_NoTextNoCode ==
  pc = "returned" =>
    /\ NoCountryText(country) => code_result = CodeRet(<<>>, "NONE")
    /\ code_result.code # <<>> => ~NoCountryText(country)

----------------------------------------------------------------------------
(* The values given to DocumentTypes.get_code: every text of up to         *)
(* MaxTypeLen characters over a small alphabet, document type names as     *)
(* they are written in a sheet, texts around a key, keyword texts, None    *)
(* and NaN.                                                                *)

MaxTypeLen == 3

TypeAlphabet == {"P", "p", "A", "C", "e", SP, "X"}

TypeTexts ==
  UNION {[1..k -> TypeAlphabet] : k \in 0..MaxTypeLen} \cup
  { Chars("PASAPORTE"), Chars("Pasaporte"), Chars(" pasaporte "),
    Chars("mi pasaporte"), Chars("PASAPORTES"), Chars("Passport"),
    Chars("PASAP"), Chars("PASSPO"), Chars("Cedula de Extranjeria"),
    Chars("CEDULA"), Chars("EXTRAN"), Chars("Carne"), Chars("DIPLOM"),
    Chars("Diplomatico"), Chars("PROTEC"), Chars("TEMPORAL"), Chars("PPT"),
    Chars("Visa"), Chars("DNI"), Chars("National ID"), Chars("LIBRETA"),
    Chars("XX"), Chars("X") \o <<TAB>>, Chars("Extranjeros"), Chars("Diplomado"),
    Chars("Carnet"), Chars("Protector") }

TypeInputs == {StrV(t) : t \in TypeTexts} \cup {NoneV, NanV}

InitDocType ==
  /\ pc = "call"
  /\ doc_type \in TypeInputs
  /\ type_result = NoTypeResult
  /\ ValidateIdle /\ DateIdle /\ CountryIdle /\ DetectIdle /\ ConvertIdle
  /\ NameIdle /\ MatchIdle
  /\ TerminalIdle

CallDocType ==
  /\ pc = "call"
  /\ type_result' = doc_type_code(doc_type)
  /\ pc' = "returned"
  /\ UNCHANGED <<doc_type, validateVars, dateVars, countryVars, detectVars,
                 convertVars, nameVars, matchVars,
                 terminalVars>>

NextDocType == CallDocType

SpecDocType == InitDocType /\ [][NextDocType]_vars

----------------------------------------------------------------------------
(* C12 *)

\* the input is empty: absent, NaN, the empty text or a blank one
EmptyTypeInput(v) ==
  \/ v.kind \in {"none", "nan"}
  \/ v.kind = "str" /\ strip(v.s) = <<>>

\* the normalized text is a key of DocumentTypes.CODES
ExactTypeKey(v) ==
  /\ v.kind = "str"
  /\ \E i \in 1..Len(DOC_TYPE_CODES) : DOC_TYPE_CODES[i].key = strip(upper(v.s))

\* C12: the confidence is HIGH only when the text equals a table key (a
\* text that contains a key, is contained in one, or matches a keyword
\* family gets at most MEDIUM); empty input yields ("3", LOW); the code
\* is never empty.
C12_HighOnlyOnExactKey ==
  pc = "returned" =>
    /\ type_result.code # <<>>
    /\ EmptyTypeInput(doc_type) => type_result = CodeRet(DefaultDocType, "LOW")
    /\ type_result.confidence = "HIGH" => ExactTypeKey(doc_type)

----------------------------------------------------------------------------
(* The values given to TextNormalizer.split_full_name: every name of up to *)
(* MaxTokens words drawn from a few words, the same with irregular spacing *)
(* and with characters the normalization removes, None and NaN.            *)

MaxTokens == 4

NameWords == {Chars("Ana"), Chars("de"), Chars("LOPEZ")}

WordLists == UNION {[1..k -> NameWords] : k \in 0..MaxTokens}

NameTexts ==
  {join(<<SP>>, w) : w \in WordLists} \cup
  {<<SP>> \o join(<<SP, TAB>>, w) \o <<SP>> : w \in WordLists} \cup
  { Chars("123"), Chars("Ana 2 Lopez"), Chars("Ana-Maria Lopez"),
    Chars("O'Neil"), Chars("Jos") \o <<"eacute">> \o Chars(" Nu") \o <<"ntilde">> \o Chars("ez"),
    Chars("A. B. C. D. E.") }

NameInputs == {StrV(t) : t \in NameTexts} \cup {NoneV, NanV}

InitName ==
  /\ pc = "call"
  /\ full_name \in NameInputs
  /\ name_parts = NoNameParts
  /\ ValidateIdle /\ DateIdle /\ CountryIdle /\ DetectIdle /\ ConvertIdle
  /\ TypeIdle /\ MatchIdle
  /\ TerminalIdle

CallSplitFullName ==
  /\ pc = "call"
  /\ name_parts' = split_full_name(full_name)
  /\ pc' = "returned"
  /\ UNCHANGED <<full_name, validateVars, dateVars, countryVars, detectVars,
                 convertVars, typeVars, matchVars,
                 terminalVars>>

NextName == CallSplitFullName

SpecName == InitName /\ [][NextName]_vars

----------------------------------------------------------------------------
(* C15 *)

\* the whitespace-split tokens of the normalized full name
NameTokens(v) == split(normalize_name(v))

\* C15: by the number of tokens of the normalized name: none, everything
\* is empty; one, it is the given name and there is no surname; two, given
\* name then first surname; three, the last is the only surname and the
\* first two are the given name; four or more, the last two are the
\* surnames and the others the given name.
C15_SplitByTokenCount ==
  pc = "returned" =>
    LET t == NameTokens(full_name)
        n == Len(t)
    IN CASE n = 0 -> name_parts = [primer |-> <<>>, segundo |-> <<>>, nombres |-> <<>>]
         [] n = 1 -> name_parts = [primer |-> <<>>, segundo |-> <<>>, nombres |-> t[1]]
         [] n = 2 -> name_parts = [primer |-> t[2], segundo |-> <<>>, nombres |-> t[1]]
         [] n = 3 -> name_parts = [primer |-> t[3], segundo |-> <<>>,
                                   nombres |-> t[1] \o <<SP>> \o t[2]]
         [] OTHER -> name_parts = [primer |-> t[n - 1], segundo |-> t[n],
                                   nombres |-> join(<<SP>>, SubSeq(t, 1, n - 2))]

----------------------------------------------------------------------------
(* The datasets given to detect_columns: up to MaxCols distinct columns     *)
(* drawn from a pool of named columns, each with its cells.  The pool has   *)
(* names every pass can claim, names that match several fields, a name an   *)
(* exclusion keyword rejects, and unnamed columns whose content is          *)
(* document-like, date-like, half matching, or entirely missing.            *)

MaxCols == 3
DetectRows == 2

T(x) == StrV(Chars(x))

DetectPool ==
  << [name |-> Chars("Tipo de Documento"), cells |-> <<T("Pasaporte"), T("PASSPORT"), T("CE")>>],
     [name |-> Chars("Numero Documento"), cells |-> <<T("AB123456"), T("12345678"), T("X1")>>],
     [name |-> Chars("Documento"), cells |-> <<T("CD654321"), T("87654321"), T("ZZ999999")>>],
     [name |-> Chars("Nombre Completo"), cells |-> <<T("Ana Maria Lopez"), T("John Smith"), NanV>>],
     [name |-> Chars("Nombre"), cells |-> <<T("Ana"), T("John"), T("Li")>>],
     [name |-> Chars("Pais"), cells |-> <<T("Peru"), T("Colombia"), T("USA")>>],
     [name |-> Chars("Fecha"), cells |-> <<T("15/03/1990"), NanV, T("1990-03-15")>>],
     [name |-> Chars("F.N."), cells |-> <<T("1/2/85"), T("1985-02-01"), T("x")>>],
     [name |-> Chars("Tipo Doc Num"), cells |-> <<T("AB123456"), T("12345678"), T("CD654321")>>],
     [name |-> Chars("Codigo"), cells |-> <<T("AB123456"), T("x"), T("y")>>],
     [name |-> Chars("Notas"), cells |-> <<NanV, NoneV, NanV>>],
     [name |-> Chars("Obs"), cells |-> <<T("late"), NanV, T("vip")>>],
     [name |-> Chars("Id Documento"), cells |-> <<T("AB123456"), T("PA"), NanV>>] >>

\* the cell of a pool column in row r (the cells repeat beyond their number)
PoolCell(p, r) == DetectPool[p].cells[((r - 1) % Len(DetectPool[p].cells)) + 1]

PoolFrame(h, nrows) ==
  [columns |-> [i \in 1..Len(h) |-> DetectPool[h[i]].name],
   rows |-> [r \in 1..nrows |-> [i \in 1..Len(h) |-> PoolCell(h[i], r)]]]

Headers ==
  {h \in UNION {[1..n -> 1..Len(DetectPool)] : n \in 0..MaxCols} :
     \A i, j \in 1..Len(h) : i # j => h[i] # h[j]}

DetectInputs == {PoolFrame(h, DetectRows) : h \in Headers}

InitDetect ==
  /\ pc = "call"
  /\ df \in DetectInputs
  /\ column_map = <<>>
  /\ ValidateIdle /\ DateIdle /\ CountryIdle /\ ConvertIdle
  /\ TypeIdle /\ NameIdle /\ MatchIdle
  /\ TerminalIdle

\* detected = ColumnDetector.detect_columns(df)
CallDetect ==
  /\ pc = "call"
  /\ column_map' = detect_columns(df)
  /\ pc' = "returned"
  /\ UNCHANGED <<df, validateVars, dateVars, countryVars, convertVars,
                 typeVars, nameVars, matchVars,
                 terminalVars>>

NextDetect == CallDetect

SpecDetect == InitDetect /\ [][NextDetect]_vars

----------------------------------------------------------------------------
(* C5 *)

DetectReturned == pc = "returned" /\ df # NoFrame /\ ConvertIdle

\* C5: in the mapping detect_columns returns, no column is assigned to two
\* fields, and every assigned column is a column of the dataset.
C5_DetectInjective ==
  DetectReturned =>
    /\ \A f, g \in DOMAIN column_map :
         column_map[f].col = column_map[g].col => f = g
    /\ \A f \in DOMAIN column_map :
         \E i \in 1..Len(df.columns) : df.columns[i] = column_map[f].col

\* a dataset in which all three passes claimed a column, and a column that
\* two fields' patterns accept went to one field only
C5_Witness ==
  /\ DetectReturned
  /\ \E f, g, h \in DOMAIN column_map :
       /\ column_map[f].conf = "HIGH"
       /\ column_map[g].conf = "MEDIUM"
       /\ column_map[h].conf = "LOW"
  /\ Cardinality(DOMAIN column_map) = Len(df.columns)

----------------------------------------------------------------------------
(* C13 *)

\* the position of a field in the order the passes visit the fields
FieldIndex(f) ==
  CHOOSE k \in 1..Len(sorted_fields) : sorted_fields[k].field = f

\* the position of a column in df.columns
ColumnPos(c) == CHOOSE i \in 1..Len(df.columns) : df.columns[i] = c

\* the column qualifies for the field in pass 1: not excluded, score >= 0.8
Qualifies1(f, c) ==
  /\ ~name_table[c][FieldIndex(f)].exclude
  /\ FracGE(name_table[c][FieldIndex(f)].pass1.score, HighThreshold)

\* the column qualifies for the field in pass 2: not excluded, score >= 0.4
Qualifies2(f, c) ==
  /\ ~name_table[c][FieldIndex(f)].exclude
  /\ FracGE(name_table[c][FieldIndex(f)].pass2.score, MediumThreshold)

DatasetColumns == {df.columns[i] : i \in 1..Len(df.columns)}

\* the columns claimed with a given confidence
ClaimedAt(conf) ==
  {column_map[f].col : f \in {g \in DOMAIN column_map : column_map[g].conf = conf}}

Ranked == {"tipo_documento", "numero_documento"}

IsUnranked(p) == p.field \notin Ranked

\* tipo_documento is visited first, numero_documento second, the unranked
\* fields afterwards in their declared order
VisitOrder ==
  /\ sorted_fields[1].field = "tipo_documento"
  /\ sorted_fields[2].field = "numero_documento"
  /\ SubSeq(sorted_fields, 3, Len(sorted_fields)) = SelectSeq(FIELD_PATTERNS, IsUnranked)

\* the field holds c, or a column that stands before c, with that confidence
HoldsAtOrBefore(f, c, conf) ==
  /\ f \in DOMAIN column_map
  /\ column_map[f].conf = conf
  /\ ColumnPos(column_map[f].col) <= ColumnPos(c)

\* numero_documento never holds the column tipo_documento claimed
NumeroAfterTipo ==
  Ranked \subseteq DOMAIN column_map =>
    column_map["numero_documento"].col # column_map["tipo_documento"].col

\* C13 as stated: the fields are visited in priority order and, within a
\* pass, every unclaimed column that qualifies for both tipo_documento and
\* numero_documento is assigned to tipo_documento.
C13_BothGoesToTipo ==
  DetectReturned =>
    /\ VisitOrder
    /\ NumeroAfterTipo
    /\ \A c \in DatasetColumns :
         /\ (Qualifies1("tipo_documento", c) /\ Qualifies1("numero_documento", c)) =>
              /\ "tipo_documento" \in DOMAIN column_map
              /\ column_map["tipo_documento"] = [col |-> c, conf |-> "HIGH"]
         /\ (/\ c \notin ClaimedAt("HIGH")
             /\ Qualifies2("tipo_documento", c)
             /\ Qualifies2("numero_documento", c)) =>
              /\ "tipo_documento" \in DOMAIN column_map
              /\ column_map["tipo_documento"] = [col |-> c, conf |-> "MEDIUM"]

\* C13, amended: the fields are visited in priority order; a column that
\* qualifies for both fields in pass 1 goes to tipo_documento unless
\* tipo_documento claims an earlier column of that pass; a column left
\* unclaimed by pass 1 that qualifies for both in pass 2 goes to
\* tipo_documento unless tipo_documento was claimed in pass 1 or claims an
\* earlier column in pass 2; numero_documento never holds the column of
\* tipo_documento.
C13_TipoBeforeNumero ==
  DetectReturned =>
    /\ VisitOrder
    /\ NumeroAfterTipo
    /\ \A c \in DatasetColumns :
         /\ (Qualifies1("tipo_documento", c) /\ Qualifies1("numero_documento", c)) =>
              HoldsAtOrBefore("tipo_documento", c, "HIGH")
         /\ (/\ c \notin ClaimedAt("HIGH")
             /\ Qualifies2("tipo_documento", c)
             /\ Qualifies2("numero_documento", c)) =>
              \/ HoldsAtOrBefore("tipo_documento", c, "MEDIUM")
              \/ /\ "tipo_documento" \in DOMAIN column_map
                 /\ column_map["tipo_documento"].conf = "HIGH"

\* a column both fields accept went to tipo_documento, and numero_documento
\* claimed another column in pass 1
C13_Witness ==
  /\ DetectReturned
  /\ "tipo_documento" \in DOMAIN column_map
  /\ Qualifies1("numero_documento", column_map["tipo_documento"].col)
  /\ "numero_documento" \in DOMAIN column_map
  /\ column_map["numero_documento"].conf = "HIGH"

----------------------------------------------------------------------------
(* C14 *)

\* what detect_columns holds after each of its passes on df
AfterPass1 == pass1(df, 1, NothingDetected).detected
AfterPass2 == pass2(df, 1, pass1(df, 1, NothingDetected)).detected

\* every entry of a is an entry of b, unchanged
Keeps(a, b) == \A f \in DOMAIN a : f \in DOMAIN b /\ b[f] = a[f]

CriticalFields == {critical_fields[k] : k \in 1..Len(critical_fields)}

AllFields == {FIELD_PATTERNS[k].field : k \in 1..Len(FIELD_PATTERNS)}

\* the field has a column of the dataset that could be claimed for it, by
\* name or, for a critical field, by content
HasQualifyingColumn(f) ==
  \E c \in DatasetColumns :
    \/ Qualifies2(f, c)
    \/ /\ f \in CriticalFields
       /\ Pass3Takes(df, NothingDetected, ConfigOf(f), c)

----------------------------------------------------------------------------
(* The datasets given to convert: one of the headers below over up to       *)
(* MaxRows rows drawn from a list of guests.  The guests cover every way a   *)
(* row ends: emitted, a duplicate of an earlier row, a Colombian (by         *)
(* nationality or by inference from procedencia, with a valid and with an    *)
(* invalid document), a failed document, missing required values, and a     *)
(* date cell that makes the date parser raise.                               *)

MaxRows == 2

G(doc, tipo, ap, nom, full, nac, proc, dest, fin, fout, fnac) ==
  [doc |-> doc, tipo |-> tipo, ap |-> ap, nom |-> nom, full |-> full,
   nac |-> nac, proc |-> proc, dest |-> dest, fin |-> fin, fout |-> fout,
   fnac |-> fnac]

GuestRows ==
  << \* a Peruvian guest
     G(T("AB123456"), T("Pasaporte"), T("Garcia Lopez"), T("Ana"),
       T("Ana Maria Garcia Lopez"), T("Peru"), T("Peru"), T("Medellin"),
       T("15/01/2024"), TsV(2024, 1, 20), T("1990-03-15")),
     \* another guest with the same document and the same dates, written
     \* differently
     G(T(" AB123456 "), NanV, T("Smith"), T("John"), T("John Smith"),
       T("USA"), NanV, T("USA"), T("2024-01-15 10:30"), T("20/01/2024"),
       T("01/02/1980")),
     \* a Colombian with nothing but a document
     G(T("CC998877"), NanV, NanV, NanV, NanV, T("Colombia"), T("colombia"),
       NanV, NanV, NatV, NanV),
     \* a Colombian whose document is too short
     G(T("123"), T("CE"), T("Rojas"), T("Luz"), T("Luz Rojas"), T("COLOMBIA"),
       T("Colombia"), T("Cali"), T("15/01/2024"), T("20/01/2024"),
       T("02/02/1992")),
     \* a guest whose movement date cell is NaT
     G(T("EF112233"), T("PPT"), T("Diaz"), T("Eva"), T("Eva Diaz"), T("Chile"),
       T("Chile"), NanV, NatV, NatV, T("15/03/1990")),
     \* a guest whose document holds a tab
     G(StrV(Chars("XY") \o <<TAB>> \o Chars("12345")), T("Passport"),
       T("O'Neil"), T("Sam"), T("Sam O'Neil"), T("Chile"), NanV,
       T("Peru"), T("01/06/2024"), T("02/06/2024"), T("15/03/1990")),
     \* a guest whose surname cell is empty
     G(T("GH445566"), T("Visa"), NanV, T("Li"), T("Li"), T("Peru"), T("Peru"),
       T("Bogota"), T("01/06/2024"), T("02/06/2024"), T("15/03/1990")),
     \* a guest without given names, nationality and a birth date in range
     G(T("JK778899"), T("DNI"), T("Diaz"), NanV, NanV, NanV, NanV, NanV,
       T("01/06/2024"), T("02/06/2024"), T("31/12/1850")) >>

C(name, key) == [name |-> Chars(name), key |-> key]

FullHeader ==
  << C("Tipo Documento", "tipo"), C("Numero Documento", "doc"),
     C("Apellidos", "ap"), C("Nombres", "nom"), C("Nacionalidad", "nac"),
     C("Procedencia", "proc"), C("Destino", "dest"),
     C("Fecha Entrada", "fin"), C("Fecha Salida", "fout"),
     C("Fecha Nacimiento", "fnac") >>

ShortHeader ==
  << C("Numero Documento", "doc"), C("Nombre Completo", "full"),
     C("Procedencia", "proc"), C("Fecha Entrada", "fin"),
     C("Fecha Nacimiento", "fnac") >>

ConvertHeaders == {FullHeader, ShortHeader}

GuestFrame(h, rs) ==
  [columns |-> [i \in 1..Len(h) |-> h[i].name],
   rows |-> [k \in 1..Len(rs) |-> [i \in 1..Len(h) |-> GuestRows[rs[k]][h[i].key]]]]

RowChoices == UNION {[1..n -> 1..Len(GuestRows)] : n \in 0..MaxRows}

ConvertInputs == {GuestFrame(h, rs) : h \in ConvertHeaders, rs \in RowChoices}

HotelCodes == { Chars("12345"), Chars("H") \o <<TAB>> \o Chars("1") }

MovementTypes == {"E", "S"}

\* SireConverter(hotel_code): the state after construction, with the
\* arguments convert will be called with
Init ==
  /\ pc = "new"
  /\ hotel_code \in HotelCodes
  /\ city_code = Chars("5001")
  /\ movement_type \in MovementTypes
  /\ df \in ConvertInputs
  /\ column_map = <<>>
  /\ stats = NoStats
  /\ errors = <<>>
  /\ warnings = <<>>
  /\ lines = <<>>
  /\ seen_keys = {}
  /\ idx = 0
  /\ earlier_keys = {}
  /\ ValidateIdle /\ DateIdle /\ CountryIdle
  /\ TypeIdle /\ NameIdle /\ MatchIdle
  /\ TerminalIdle

\* a convert that keeps the duplicate keys of the call before
ConvertStart_keeping_keys ==
  /\ pc = "new"
  /\ column_map' = detect_columns(df)
  /\ lines' = <<>>
  /\ seen_keys' = seen_keys
  /\ stats' = [NoStats EXCEPT !.total = Len(df.rows)]
  /\ errors' = <<>>
  /\ warnings' = <<>>
  /\ idx' = 0
  /\ pc' = "loop"
  /\ UNCHANGED <<df, hotel_code, city_code, movement_type, earlier_keys,
                 validateVars, dateVars, countryVars,
                 typeVars, nameVars, matchVars,
                 terminalVars>>

\* convert, up to the loop: the columns are detected, the statistics and
\* the logs are reset
ConvertStart ==
  /\ pc = "new"
  /\ column_map' = detect_columns(df)
  /\ lines' = <<>>
  /\ seen_keys' = {}
  /\ stats' = [NoStats EXCEPT !.total = Len(df.rows)]
  /\ errors' = <<>>
  /\ warnings' = <<>>
  /\ idx' = 0
  /\ pc' = "loop"
  /\ UNCHANGED <<df, hotel_code, city_code, movement_type, earlier_keys,
                 validateVars, dateVars, countryVars,
                 typeVars, nameVars, matchVars,
                 terminalVars>>

\* one iteration of "for idx, row in df.iterrows()"
ProcessRow ==
  /\ pc = "loop"
  /\ idx < Len(df.rows)
  /\ \E s \in {loop_body(LoopState(stats, errors, warnings, lines, seen_keys),
                          df, idx, column_map, hotel_code, city_code, movement_type)} :
        /\ stats' = s.stats
        /\ errors' = s.errors
        /\ warnings' = s.warnings
        /\ lines' = s.lines
        /\ seen_keys' = s.seen_keys
  /\ idx' = idx + 1
  /\ UNCHANGED <<pc, df, column_map, hotel_code, city_code, movement_type,
                 earlier_keys, validateVars, dateVars, countryVars,
                 typeVars, nameVars, matchVars,
                 terminalVars>>

\* return lines, self.stats
ConvertReturn ==
  /\ pc = "loop"
  /\ idx = Len(df.rows)
  /\ pc' = "returned"
  /\ UNCHANGED <<detectVars, convertVars, validateVars, dateVars, countryVars,
                 typeVars, nameVars, matchVars,
                 terminalVars>>

Next == ConvertStart \/ ProcessRow \/ ConvertReturn

Spec == Init /\ [][Next]_vars

----------------------------------------------------------------------------
(* Repeated calls of convert on one instance: after a call has returned,    *)
(* convert is called again with any dataset and direction.  The datasets    *)
(* have up to MaxReuseRows rows, drawn from a guest, a second guest with    *)
(* the same duplicate key, a Colombian and a guest with missing values.     *)

MaxReuseRows == 1

ReuseGuests == {1, 2, 3, 8}

ReuseInputs ==
  {GuestFrame(h, rs) : h \in ConvertHeaders,
                       rs \in UNION {[1..n -> ReuseGuests] : n \in 0..MaxReuseRows}}

InitReuse ==
  /\ pc = "new"
  /\ hotel_code = Chars("12345")
  /\ city_code = Chars("5001")
  /\ movement_type \in MovementTypes
  /\ df \in ReuseInputs
  /\ column_map = <<>>
  /\ stats = NoStats
  /\ errors = <<>>
  /\ warnings = <<>>
  /\ lines = <<>>
  /\ seen_keys = {}
  /\ idx = 0
  /\ earlier_keys = {}
  /\ ValidateIdle /\ DateIdle /\ CountryIdle
  /\ TypeIdle /\ NameIdle /\ MatchIdle
  /\ TerminalIdle

\* the caller calls convert once more on the same instance: the instance
\* still holds what the call before left in it
ConvertAgain ==
  /\ pc = "returned"
  /\ df' \in ReuseInputs
  /\ movement_type' \in MovementTypes
  /\ earlier_keys' = earlier_keys \cup seen_keys
  /\ pc' = "new"
  /\ UNCHANGED <<column_map, hotel_code, city_code, stats, errors, warnings,
                 lines, seen_keys, idx, validateVars, dateVars, countryVars,
                 typeVars, nameVars, matchVars,
                 terminalVars>>

NextReuse == ConvertStart \/ ProcessRow \/ ConvertReturn \/ ConvertAgain

SpecReuse == InitReuse /\ [][NextReuse]_vars

----------------------------------------------------------------------------
(* C16 *)

\* C16: whatever calls came before on the instance, when convert returns
\* its lines, statistics, errors, warnings and column map are those a new
\* instance gives for the same dataset and direction.
C16_CallsIndependent ==
  (pc = "returned" /\ hotel_code # <<>>) =>
    LET fresh == convert(df, hotel_code, city_code, movement_type) IN
    /\ lines = fresh.lines
    /\ stats = fresh.stats
    /\ errors = fresh.errors
    /\ warnings = fresh.warnings
    /\ column_map = detect_columns(df)

\* a later call emitted a guest whose key an earlier call had seen
C16_Witness ==
  /\ pc = "returned"
  /\ lines # <<>>
  /\ seen_keys \cap earlier_keys # {}
  /\ stats.duplicados = 0


----------------------------------------------------------------------------
(* C1 *)

ConvertReturned == pc = "returned" /\ hotel_code # <<>>

Buckets(st) == st.valid + st.skipped + st.colombianos + st.duplicados

\* C1: after convert returns, total is the number of rows of the dataset and
\* equals valid + skipped + colombianos + duplicados; while the loop runs,
\* the four buckets add up to the number of rows processed so far.
C1_EveryRowInOneBucket ==
  /\ ConvertReturned => stats.total = Len(df.rows) /\ stats.total = Buckets(stats)
  /\ (pc = "loop" /\ hotel_code # <<>>) => Buckets(stats) = idx

\* convert returned for a dataset in which one row raised and the other
\* landed in another bucket
C1_Witness ==
  /\ ConvertReturned
  /\ stats.total = MaxRows
  /\ \E k \in 1..Len(errors) : errors[k].text[1] = "Error inesperado"
  /\ stats.skipped = 1

----------------------------------------------------------------------------
(* Vocabulary of the claims about the loop of convert *)

\* the loop is about to process the row at index idx, and does
RowStep == pc = "loop" /\ hotel_code # <<>> /\ idx' = idx + 1

\* how _process_guest ends on row r of the dataset
ResultOf(r) == process_guest(df, r, column_map, movement_type)

\* the document of row r passes validate_document
DocPasses(r) ==
  validate_document(doc_text(get_value(df, r, column_map, "numero_documento"))).ok

\* the nationality of row r resolves to the home country, from the
\* nationality column or by inference from procedencia
ResolvesHome(r) == nationality_of(df, r, column_map).code = HomeCountryCode

OtherBucketsUnchanged(bucket) ==
  \A b \in {"valid", "skipped", "colombianos", "duplicados"} \ {bucket} :
    stats'[b] = stats[b]

----------------------------------------------------------------------------
(* C2 *)

DomesticExcluded ==
  /\ lines' = lines
  /\ stats'.colombianos = stats.colombianos + 1
  /\ stats'.skipped = stats.skipped

\* C2 as stated: a row whose nationality resolves to 169 is never emitted,
\* adds 1 to colombianos and leaves skipped alone, whatever its other values.
C2_DomesticWhateverElse ==
  [][(RowStep /\ ResolvesHome(idx + 1)) => DomesticExcluded]_vars

\* C2: a row whose document passes validation and whose nationality resolves
\* to 169, directly or by inference from procedencia, is never emitted, adds
\* 1 to colombianos and leaves the other buckets alone, whatever its name,
\* date, origin and destination values are.
C2_DomesticWithValidDocument ==
  [][(RowStep /\ DocPasses(idx + 1) /\ ResolvesHome(idx + 1))
       => (DomesticExcluded /\ OtherBucketsUnchanged("colombianos"))]_vars

\* a Colombian recognised by inference from procedencia, whose row has no
\* name and no date, was counted
C2_Witness ==
  /\ pc = "loop" /\ idx = 1
  /\ "nacionalidad" \notin DOMAIN column_map
  /\ DocPasses(1) /\ ResolvesHome(1)
  /\ get_value(df, 1, column_map, "nombre_completo") = NanV
  /\ stats.colombianos = 1 /\ stats.inferidos = 2

----------------------------------------------------------------------------
(* C3 *)

IsValidGuest(res) == res.outcome = "guest" /\ res.guest.is_valid

\* (document value, parsed movement date, movement direction) of a record
GuestKey(res) ==
  <<res.guest.documento.value, res.guest.fecha_movimiento.value, movement_type>>

ValidGuest(r) == IsValidGuest(ResultOf(r))

KeyOf(r) == GuestKey(ResultOf(r))

EarlierSameKey(r) ==
  LET res == ResultOf(r) IN
  \E q \in 1..(r - 1) :
    LET earlier == ResultOf(q)
    IN IsValidGuest(earlier) /\ GuestKey(earlier) = GuestKey(res)

\* C3: of the valid, non-domestic rows of one pass that share (document,
\* movement date, direction), the earliest adds a line; each later one adds
\* no line, adds 1 to duplicados and changes no other bucket.  So no two
\* lines come from rows with the same key.
C3_FirstOfKeyOnly ==
  [][(RowStep /\ ValidGuest(idx + 1)) =>
       IF EarlierSameKey(idx + 1)
       THEN /\ lines' = lines
            /\ stats'.duplicados = stats.duplicados + 1
            /\ OtherBucketsUnchanged("duplicados")
       ELSE /\ Len(lines') = Len(lines) + 1
            /\ stats'.duplicados = stats.duplicados]_vars

\* two different rows with the same document and the same parsed movement
\* date: one line, one duplicate
C3_Witness ==
  /\ ConvertReturned
  /\ Len(df.rows) = 2 /\ df.rows[1] # df.rows[2]
  /\ ValidGuest(1) /\ ValidGuest(2) /\ KeyOf(1) = KeyOf(2)
  /\ Len(lines) = 1 /\ stats.duplicados = 1 /\ stats.valid = 1

----------------------------------------------------------------------------
(* C4 *)

\* C4 as stated: every line returned by convert, split on the tab, has
\* exactly 13 fields, and they are the fields of its record in the fixed
\* order, whatever the establishment code and the validated document are.
C4_ThirteenFields ==
  ConvertReturned =>
    \A k \in 1..Len(lines) : Len(split_on(lines[k], TAB)) = NumFields

----------------------------------------------------------------------------
(* C6 *)

Raises(r) == ResultOf(r).outcome = "raise"

\* C6: when processing a row raises, the loop appends exactly one error
\* tagged with the row's ordinal, adds 1 to skipped and to no other bucket,
\* adds no line, leaves the keys seen and the warnings as they were, and
\* goes on with the next row.
C6_RowExceptionContained ==
  [][(RowStep /\ Raises(idx + 1)) =>
       /\ Len(errors') = Len(errors) + 1
       /\ SubSeq(errors', 1, Len(errors)) = errors
       /\ errors'[Len(errors')].row = idx + 2
       /\ errors'[Len(errors')].text[1] = "Error inesperado"
       /\ stats'.skipped = stats.skipped + 1
       /\ OtherBucketsUnchanged("skipped")
       /\ lines' = lines
       /\ seen_keys' = seen_keys
       /\ warnings' = warnings
       /\ pc' = "loop"]_vars

\* the first row raised, the second row was emitted after it, and convert
\* returned
C6_Witness ==
  /\ ConvertReturned
  /\ Len(df.rows) = 2 /\ Raises(1) /\ ValidGuest(2)
  /\ Len(lines) = 1 /\ stats.skipped = 1 /\ stats.valid = 1
  /\ Len(errors) = 1 /\ errors[1].row = 2

----------------------------------------------------------------------------
(* C7 *)

\* pandas' missing cell, or a blank text
CellMissing(v) ==
  v.kind \in {"none", "nan", "nat"} \/ (v.kind = "str" /\ strip(v.s) = <<>>)

\* the column a required value of the record is read from
SourceField(attr) ==
  IF attr = "fecha_movimiento" THEN movement_field(movement_type) ELSE attr

\* row r lacks the required value attr: its column was detected and the cell
\* is missing; the nationality is lacking when it resolves to no code
Lacks(r, attr) ==
  IF attr = "nacionalidad" THEN nationality_of(df, r, column_map).code = <<>>
  ELSE /\ SourceField(attr) \in DOMAIN column_map
       /\ CellMissing(get_value(df, r, column_map, SourceField(attr)))

RequiredValues ==
  {"nombres", "primer_apellido", "nacionalidad", "fecha_movimiento",
   "fecha_nacimiento"}

\* C7 as stated: a row that passes document validation, is not domestic and
\* lacks one of the required values is not emitted, adds 1 to skipped, and
\* adds one "Falta <field>" error tagged with its ordinal per lacking value.
C7_LackingValueRejected ==
  [][(RowStep /\ DocPasses(idx + 1) /\ ~ResolvesHome(idx + 1)
        /\ \E a \in RequiredValues : Lacks(idx + 1, a)) =>
       /\ lines' = lines
       /\ stats'.skipped = stats.skipped + 1
       /\ \A a \in RequiredValues :
            Lacks(idx + 1, a) =>
              \E k \in (Len(errors) + 1)..Len(errors') :
                errors'[k] = [row |-> idx + 2, text |-> <<"Falta", a>>]]_vars

----------------------------------------------------------------------------
(* C17 *)

\* the warnings _process_guest generated for row r before it ended: those
\* of the record it returned, or the note of an inferred nationality when it
\* returned None or raised afterwards
GeneratedWarnings(r) ==
  LET res == ResultOf(r) IN
  IF res.outcome = "guest" THEN res.guest.warnings
  ELSE IF nationality_of(df, r, column_map).inferred
    THEN <<"Nacionalidad inferida desde procedencia">>
  ELSE <<>>

\* the step adds every warning generated for the row, tagged with its ordinal
WarningsLogged ==
  \A k \in 1..Len(GeneratedWarnings(idx + 1)) :
    \E j \in (Len(warnings) + 1)..Len(warnings') :
      warnings'[j] = [row |-> idx + 2, text |-> GeneratedWarnings(idx + 1)[k]]

\* C17: every warning generated while a row is processed is in the
\* converter's warning list, tagged with the row's ordinal, whatever bucket
\* the row ends in; a row with warnings and no error is emitted unless it
\* is a duplicate.
C17_WarningsAlwaysLogged ==
  [][RowStep =>
       /\ WarningsLogged
       /\ (ValidGuest(idx + 1) /\ ~EarlierSameKey(idx + 1)) =>
            Len(lines') = Len(lines) + 1]_vars

----------------------------------------------------------------------------
(* C18 *)

\* row r is the earliest valid, non-domestic row with its duplicate key
IsEmitted(r) == ValidGuest(r) /\ ~EarlierSameKey(r)

IsDuplicate(r) == ValidGuest(r) /\ EarlierSameKey(r)

RowNumbers == [r \in 1..Len(df.rows) |-> r]

\* the rows whose record is emitted, in input order
EmittedRows == SelectSeq(RowNumbers, IsEmitted)

RECURSIVE SumInferidos(_)
SumInferidos(r) == IF r = 0 THEN 0 ELSE ResultOf(r).inferidos + SumInferidos(r - 1)

\* C18: the lines convert returns are those of the emitted rows in input
\* order, the emitted row of each duplicate key being the earliest valid row
\* with that key, and the statistics are those of one walk over the rows in
\* order.
C18_InputOrder ==
  ConvertReturned =>
    /\ Len(lines) = Len(EmittedRows)
    /\ \A k \in 1..Len(lines) :
         lines[k] = sire_line(ResultOf(EmittedRows[k]).guest, hotel_code, city_code,
                              movement_type)
    /\ stats.valid = Len(EmittedRows)
    /\ stats.duplicados = Len(SelectSeq(RowNumbers, IsDuplicate))
    /\ stats.colombianos = Cardinality({r \in 1..Len(df.rows) : ResultOf(r).outcome = "none"})
    /\ stats.skipped = Len(df.rows) - stats.valid - stats.duplicados - stats.colombianos
    /\ stats.inferidos = SumInferidos(Len(df.rows))

\* two different guests were emitted, the earlier row first
C18_Witness ==
  /\ ConvertReturned
  /\ Len(df.rows) = 2 /\ Len(lines) = 2 /\ lines[1] # lines[2]
  /\ lines[1] = sire_line(ResultOf(1).guest, hotel_code, city_code, movement_type)

----------------------------------------------------------------------------
(* C19 *)

DocumentError(r) ==
  [row |-> r + 1,
   text |-> <<"Documento",
              validate_document(
                doc_text(get_value(df, r, column_map, "numero_documento"))).msg>>]

\* C19: when the document of a row fails validation the record ends there:
\* the row adds the document error and no other, no warning, no inferred
\* field, no line and no key, it is counted as skipped and as nothing else
\* (as domestic neither), and the loop goes on with the next row.
C19_DocumentFailureAborts ==
  [][(RowStep /\ ~DocPasses(idx + 1)) =>
       /\ errors' = Append(errors, DocumentError(idx + 1))
       /\ warnings' = warnings
       /\ stats' = Bump(stats, "skipped", 1)
       /\ lines' = lines
       /\ seen_keys' = seen_keys
       /\ pc' = "loop"]_vars

\* a row with a failing document and a nationality that resolves to the
\* home country, by inference from procedencia, has been processed
C19_Witness ==
  /\ pc = "loop" /\ idx = 1 /\ Len(df.rows) = 2
  /\ ~DocPasses(1)
  /\ ResolvesHome(1) /\ nationality_of(df, 1, column_map).inferred
  /\ stats.skipped = 1 /\ stats.colombianos = 0 /\ stats.inferidos = 0

----------------------------------------------------------------------------
(* ColumnDetector._fuzzy_match called on its own *)

MaxColumnWords == 2

MaxPatterns == 2

ColumnWords == {Chars("Numero"), Chars("documento"), Chars("Tipo"), Chars("de"), Chars("Doc")}

ColumnWordLists == UNION {[1..k -> ColumnWords] : k \in 1..MaxColumnWords}

MatchColumns ==
  {join(<<SP>>, w) : w \in ColumnWordLists} \cup
  { Chars(" Tipo Documento "), Chars("Document"), Chars("Num"), Chars("Fecha"),
    Chars("Tipo de Documento"), Chars("Numero del Documento") }

\* variants of tipo_documento and numero_documento in FIELD_PATTERNS
VariantPool ==
  { Chars("tipo de documento"), Chars("tipo documento"), Chars("doc type"),
    Chars("numero documento"), Chars("document number"), Chars("num documento") }

VariantLists == UNION {[1..k -> VariantPool] : k \in 1..MaxPatterns}

InitMatch ==
  /\ pc = "call"
  /\ column_name \in MatchColumns
  /\ pattern_list \in VariantLists
  /\ match_result = NoMatchResult
  /\ ValidateIdle /\ DateIdle /\ CountryIdle /\ DetectIdle /\ ConvertIdle
  /\ TypeIdle /\ NameIdle
  /\ TerminalIdle

\* cls._fuzzy_match(col, config['names']) of pass 1, and with threshold=0.4
\* of pass 3
CallFuzzyMatch ==
  /\ pc = "call"
  /\ \E threshold \in {DefaultThreshold, MediumThreshold} :
       match_result' = fuzzy_match(column_name, pattern_list, threshold)
  /\ pc' = "returned"
  /\ UNCHANGED <<column_name, pattern_list, validateVars, dateVars, countryVars,
                 detectVars, convertVars, typeVars, nameVars,
                 terminalVars>>

NextMatch == CallFuzzyMatch

SpecMatch == InitMatch /\ [][NextMatch]_vars

----------------------------------------------------------------------------
(* C20 *)

FracEq(a, b) == a.n * b.d = b.n * a.d

IntMin(a, b) == IF a <= b THEN a ELSE b

\* len(shorter)/len(longer) + 0.3 when one of the two contains the other
ContainmentByLengths(a, b) ==
  IF IsSubstring(a, b) \/ IsSubstring(b, a)
  THEN FracAdd(Frac(IntMin(Len(a), Len(b)), IntMax(Len(a), Len(b))), ContainBonus)
  ELSE Frac(0, 1)

\* shared whitespace-split words over the larger word-set size
SharedWords(a, b) ==
  IF word_set(a) = {} \/ word_set(b) = {} THEN Frac(0, 1)
  ELSE Frac(Cardinality(word_set(a) \cap word_set(b)),
            IntMax(Cardinality(word_set(a)), Cardinality(word_set(b))))

RECURSIVE BestOverVariants(_, _, _)
BestOverVariants(col, variants, k) ==
  IF k > Len(variants) THEN Frac(0, 1)
  ELSE FracMax(FracMax(ContainmentByLengths(col, variants[k]),
                       SharedWords(col, variants[k])),
               BestOverVariants(col, variants, k + 1))

MatchReturned == pc = "returned" /\ pattern_list # <<>>

\* C20: the score _fuzzy_match returns is 1.0 when the lower-cased column
\* name equals a variant, and otherwise the greatest, over the variants, of
\* len(shorter)/len(longer) + 0.3 on containment and of the shared words over
\* the larger word-set size.
C20_ScoreByLengths ==
  MatchReturned =>
    LET col == strip(lower(column_name)) IN
    IF \E k \in 1..Len(pattern_list) : pattern_list[k] = col
    THEN FracEq(match_result.score, Frac(1, 1))
    ELSE FracEq(match_result.score, BestOverVariants(col, pattern_list, 1))

\* the same with the column name inside no longer variant
C20_ScoreWhenVariantInside ==
  (MatchReturned /\ \A k \in 1..Len(pattern_list) :
      IsSubstring(strip(lower(column_name)), pattern_list[k]) =>
        Len(pattern_list[k]) = Len(strip(lower(column_name)))) =>
    C20_ScoreByLengths

----------------------------------------------------------------------------
(* C21 *)

\* the patterns of the list, by position, that parse s with a year in range
AcceptedPatterns(s) ==
  {i \in 1..Len(FORMATS) :
     strptime(s, FORMATS[i]).ok /\ YearInRange(strptime(s, FORMATS[i]).y)}

FirstOf(S) == CHOOSE k \in S : \A j \in S : k <= j

\* the date text without a time of day: the text itself where it is a date
\* of the list as it stands, and its first token otherwise
WithoutTimeOfDay(t) ==
  IF AcceptedPatterns(strip(t)) # {} \/ split(t) = <<>> THEN strip(t)
  ELSE split(t)[1]

IsDateText(dv) ==
  /\ dv.kind = "str"
  /\ strip(dv.s) # <<>> /\ lower(strip(dv.s)) \notin NullDateTexts

\* C21: for a textual date, parse returns the dd/mm/yyyy rendering of the
\* first pattern of the list that parses the text, time of day trimmed,
\* with a year in range: HIGH for dd/mm/yyyy and yyyy-mm-dd, MEDIUM for the
\* other patterns, the named-month ones included; a text that no pattern
\* parses gives an empty value.
C21_FirstPatternWins ==
  (DateReturned /\ IsDateText(date_val)) =>
    LET s == WithoutTimeOfDay(date_val.s)
        acc == AcceptedPatterns(s)
    IN IF acc = {} THEN date_result.value = <<>>
       ELSE LET p == strptime(s, FORMATS[FirstOf(acc)]) IN
            /\ date_result.value = strftime(p.y, p.m, p.d)
            /\ date_result.confidence =
                 (IF FORMATS[FirstOf(acc)].fmt \in HighFormats THEN "HIGH" ELSE "MEDIUM")

\* the same for the texts that hold no blank between the parts of the date
C21_FirstPatternWinsUnspaced ==
  (DateReturned /\ IsDateText(date_val)
     /\ AcceptedPatterns(strip(date_val.s)) \cap {7, 8} = {}) =>
    C21_FirstPatternWins

----------------------------------------------------------------------------
(* convert called on one row, over the column layouts that decide which     *)
(* branch of _process_guest resolves the names, the nationality, the        *)
(* procedencia and the destino                                              *)

Dates3 == <<T("01/06/2024"), T("02/06/2024"), T("15/03/1990")>>

MoreGuestRows ==
  << \* no nationality, a procedencia that is a country key, a domestic city
     G(T("MN334455"), T("Pasaporte"), T("Perez Ruiz"), T("Eva"), T("Eva Perez Ruiz"),
       NanV, T("Peru"), T("Cartagena"), Dates3[1], Dates3[2], Dates3[3]),
     \* no nationality, a procedencia that holds a country key, a destino
     \* that names a domestic city and a country
     G(T("PQ556677"), T("Pasaporte"), T("Soto"), T("Luis"), T("Luis Soto"),
       T(""), T("Peruano"), T("Armenia"), Dates3[1], Dates3[2], Dates3[3]),
     \* a nationality, a procedencia that is no country
     G(T("RS778899"), T("Pasaporte"), T("Rey"), T("Ines"), T("Ines Rey"),
       T("Chile"), T("Nowhere"), T("USA"), Dates3[1], Dates3[2], Dates3[3]),
     \* nothing that resolves to a country
     G(T("TU990011"), T("Pasaporte"), T("Mora"), T("Raul"), T("Raul Mora"),
       T("Qqq"), T("Qqq"), T("Qqq"), Dates3[1], Dates3[2], Dates3[3]),
     \* a nationality that holds a country key, a procedencia of its own
     G(T("VW223344"), T("Pasaporte"), T("Gil"), T("Sara"), T("Sara"),
       T("Peruano"), T("Chile"), T("Peruano"), Dates3[1], Dates3[2], Dates3[3]) >>

OneGuestRows == GuestRows \o MoreGuestRows

NameColumns == {C("Apellidos", "ap"), C("Nombres", "nom"), C("Nombre Completo", "full")}

PlaceColumns ==
  {C("Nacionalidad", "nac"), C("Procedencia", "proc"), C("Destino", "dest")}

RestOfHeader ==
  << C("Numero Documento", "doc"), C("Fecha Entrada", "fin"),
     C("Fecha Salida", "fout"), C("Fecha Nacimiento", "fnac") >>

\* the columns of a set, in the order of the sequence all
InOrder(all, S) == SelectSeq(all, LAMBDA c : c \in S)

AllGuestColumns ==
  << C("Apellidos", "ap"), C("Nombres", "nom"), C("Nombre Completo", "full"),
     C("Nacionalidad", "nac"), C("Procedencia", "proc"), C("Destino", "dest") >>

OneGuestHeaders ==
  {InOrder(AllGuestColumns, N \cup PlaceColumns) \o RestOfHeader : N \in SUBSET NameColumns}
  \cup
  {InOrder(AllGuestColumns, NameColumns \cup P) \o RestOfHeader : P \in SUBSET PlaceColumns}

OneGuestFrame(h, g) ==
  [columns |-> [i \in 1..Len(h) |-> h[i].name],
   rows |-> << [i \in 1..Len(h) |-> g[h[i].key]] >>]

OneGuestInputs ==
  {OneGuestFrame(h, OneGuestRows[k]) : h \in OneGuestHeaders, k \in 1..Len(OneGuestRows)}

InitGuest ==
  /\ pc = "new"
  /\ hotel_code = Chars("12345")
  /\ city_code = Chars("5001")
  /\ movement_type \in MovementTypes
  /\ df \in OneGuestInputs
  /\ column_map = <<>>
  /\ stats = NoStats
  /\ errors = <<>>
  /\ warnings = <<>>
  /\ lines = <<>>
  /\ seen_keys = {}
  /\ idx = 0
  /\ earlier_keys = {}
  /\ ValidateIdle /\ DateIdle /\ CountryIdle
  /\ TypeIdle /\ NameIdle /\ MatchIdle
  /\ TerminalIdle

SpecGuest == InitGuest /\ [][Next]_vars

----------------------------------------------------------------------------
(* C22 *)

Detected(field) == field \in DOMAIN column_map

OnlyFullName ==
  Detected("nombre_completo") /\ ~Detected("nombres") /\ ~Detected("primer_apellido")

NationalityInferred(r) == nationality_of(df, r, column_map).inferred

\* the increments of inferidos that the names of row r account for
NameInferences(r) ==
  (stats'.inferidos - stats.inferidos) - (IF NationalityInferred(r) THEN 1 ELSE 0)

BuildsRecord(r) == ResultOf(r).outcome = "guest" /\ DocPasses(r)

\* C22: with a given-name and a surname column detected the names are those
\* of the two columns at HIGH, whatever a detected full-name column holds;
\* the full name is split, into names at MEDIUM and with one increment of
\* inferidos, exactly when its column is the only name column detected.
C22_NamesFromColumns ==
  [][(RowStep /\ DocPasses(idx + 1)) =>
       LET r == idx + 1
           g == ResultOf(r).guest
           parts == split_full_name(get_value(df, r, column_map, "nombre_completo"))
       IN
       /\ NameInferences(r) = (IF OnlyFullName THEN 1 ELSE 0)
       /\ (BuildsRecord(r) /\ Detected("nombres") /\ Detected("primer_apellido")) =>
            /\ g.nombres =
                 FR(normalize_name(get_value(df, r, column_map, "nombres")), "HIGH")
            /\ g.primer_apellido =
                 FR(surnames_of(get_value(df, r, column_map, "primer_apellido")).primer,
                    "HIGH")
       /\ (BuildsRecord(r) /\ OnlyFullName) =>
            /\ g.nombres = FR(parts.nombres, "MEDIUM")
            /\ g.primer_apellido = FR(parts.primer, "MEDIUM")
            /\ g.segundo_apellido = FR(parts.segundo, "MEDIUM")
       /\ (BuildsRecord(r) /\ ~OnlyFullName) =>
            \A f \in {"nombres", "primer_apellido", "segundo_apellido"} :
              g[f].confidence # "MEDIUM"]_vars

\* a row was emitted from the two explicit columns while a full-name column
\* with another text in it was detected
C22_Witness ==
  /\ pc = "loop" /\ idx = 1 /\ Len(lines) = 1
  /\ Detected("nombres") /\ Detected("primer_apellido") /\ Detected("nombre_completo")
  /\ split_full_name(get_value(df, 1, column_map, "nombre_completo")).nombres
       # ResultOf(1).guest.nombres.value
  /\ stats.inferidos = 0

\* a row was emitted from the split of the only name column
C22_WitnessSplit ==
  /\ pc = "loop" /\ idx = 1 /\ Len(lines) = 1
  /\ OnlyFullName /\ stats.inferidos = 1

----------------------------------------------------------------------------
(* The two inferences of InferenceEngine called on their own *)

InitInfer ==
  /\ pc = "call"
  /\ country \in CountryInputs
  /\ code_result = NoCodeResult
  /\ ValidateIdle /\ DateIdle /\ DetectIdle /\ ConvertIdle
  /\ TypeIdle /\ NameIdle /\ MatchIdle
  /\ TerminalIdle

CallInferNationality ==
  /\ pc = "call"
  /\ code_result' = infer_nationality_from_origin(country)
  /\ pc' = "nationality"
  /\ UNCHANGED <<country, validateVars, dateVars, detectVars, convertVars,
                 typeVars, nameVars, matchVars,
                 terminalVars>>

CallInferOrigin ==
  /\ pc = "call"
  /\ code_result' = infer_origin_from_nationality(country)
  /\ pc' = "origin"
  /\ UNCHANGED <<country, validateVars, dateVars, detectVars, convertVars,
                 typeVars, nameVars, matchVars,
                 terminalVars>>

NextInfer == CallInferNationality \/ CallInferOrigin

SpecInfer == InitInfer /\ [][NextInfer]_vars

----------------------------------------------------------------------------
(* C23 *)

ConfidenceRank(c) ==
  CASE c = "HIGH" -> 3 [] c = "MEDIUM" -> 2 [] c = "LOW" -> 1 [] OTHER -> 0

InferReturned == pc \in {"nationality", "origin"}

\* C23: each of the two inferences returns the code of the country resolver
\* with MEDIUM when the resolver matched at HIGH and with LOW when it matched
\* at MEDIUM or LOW, and no code with NONE when it did not match; the
\* confidence is never HIGH and never above that of the resolver.
C23_InferenceDowngrades ==
  InferReturned =>
    LET source == get_code(country) IN
    /\ code_result.code = source.code
    /\ source.confidence = "HIGH" => code_result.confidence = "MEDIUM"
    /\ source.confidence \in {"MEDIUM", "LOW"} => code_result.confidence = "LOW"
    /\ source.code = <<>> => code_result = CodeRet(<<>>, "NONE")
    /\ code_result.confidence # "HIGH"
    /\ ConfidenceRank(code_result.confidence) <= ConfidenceRank(source.confidence)

\* an origin was inferred from a nationality the resolver matched at MEDIUM
C23_Witness ==
  /\ pc = "origin"
  /\ get_code(country).confidence = "MEDIUM"
  /\ code_result.code # <<>> /\ code_result.confidence = "LOW"

----------------------------------------------------------------------------
(* C24 *)

DirectNationality(r) == get_code(get_value(df, r, column_map, "nacionalidad"))

OriginCountry(r) == get_code(get_value(df, r, column_map, "procedencia"))

\* the nationality column gives no code, a procedencia column was detected
\* and its cell resolves to a country
InferenceYields(r) ==
  /\ DirectNationality(r).code = <<>>
  /\ Detected("procedencia")
  /\ OriginCountry(r).code # <<>>

HasWarning(g, text) == \E k \in 1..Len(g.warnings) : g.warnings[k] = text

\* C24: a direct nationality code is kept as it is; the nationality is
\* inferred from procedencia only when the nationality column gives no code
\* and a procedencia column was detected; the warning is on the record and
\* inferidos is one higher exactly when that inference gives a code.
C24_NationalityInference ==
  [][(RowStep /\ DocPasses(idx + 1)) =>
       LET r == idx + 1
           res == ResultOf(r)
           names == names_of(df, r, column_map).inferidos
       IN
       /\ stats'.inferidos =
            stats.inferidos + names + (IF InferenceYields(r) THEN 1 ELSE 0)
       /\ res.outcome = "guest" =>
            /\ HasWarning(res.guest, "Nacionalidad inferida desde procedencia")
                 <=> InferenceYields(r)
            /\ DirectNationality(r).code # <<>> =>
                 res.guest.nacionalidad =
                   FR(DirectNationality(r).code, DirectNationality(r).confidence)
            /\ InferenceYields(r) =>
                 /\ res.guest.nacionalidad.value = OriginCountry(r).code
                 /\ res.guest.nacionalidad.confidence \in {"MEDIUM", "LOW"}
            /\ (DirectNationality(r).code = <<>> /\ ~InferenceYields(r)) =>
                 res.guest.nacionalidad.value = <<>>
       /\ (res.outcome = "none" /\ ~InferenceYields(r)) =>
            DirectNationality(r).code = HomeCountryCode]_vars

\* a row without a nationality was emitted with the nationality of its
\* procedencia, the warning and one inference counted
C24_Witness ==
  /\ pc = "loop" /\ idx = 1 /\ Len(lines) = 1
  /\ Detected("nacionalidad") /\ InferenceYields(1)
  /\ stats.inferidos = 1
  /\ warnings = <<[row |-> 2, text |-> "Nacionalidad inferida desde procedencia"]>>

\* a row with a nationality and another procedencia was emitted
C24_WitnessDirect ==
  /\ pc = "loop" /\ idx = 1 /\ Len(lines) = 1
  /\ DirectNationality(1).code # <<>> /\ OriginCountry(1).code # <<>>
  /\ DirectNationality(1).code # OriginCountry(1).code
  /\ stats.inferidos = 0

----------------------------------------------------------------------------
(* C25 *)

OriginWarning == "Procedencia inferida desde nacionalidad"

\* the step emits the record of the row
Emits == Len(lines') = Len(lines) + 1

\* the fields of the line the step emits
EmittedFields == split_on(lines'[Len(lines')], TAB)

\* C25 as stated: the origin of a record is the code of its procedencia when
\* that resolves; otherwise it is the nationality code of the record, at LOW
\* and with the warning on the record.
C25_OriginFallsBackWithWarning ==
  [][(RowStep /\ BuildsRecord(idx + 1)) =>
       LET r == idx + 1
           g == ResultOf(r).guest
       IN IF OriginCountry(r).code # <<>>
          THEN g.procedencia = FR(OriginCountry(r).code, OriginCountry(r).confidence)
          ELSE /\ g.procedencia = FR(g.nacionalidad.value, "LOW")
               /\ HasWarning(g, OriginWarning)]_vars

\* C25 amended: the origin of a record is the code of its procedencia, with
\* the confidence of the resolver and no warning, when that resolves;
\* otherwise it is the nationality code of the record at LOW, with the
\* warning on the record exactly when that code is not empty.  The origin of
\* an emitted record is never empty.
C25_OriginOrNationality ==
  [][(RowStep /\ BuildsRecord(idx + 1)) =>
       LET r == idx + 1
           g == ResultOf(r).guest
       IN
       /\ IF OriginCountry(r).code # <<>>
          THEN /\ g.procedencia = FR(OriginCountry(r).code, OriginCountry(r).confidence)
               /\ ~HasWarning(g, OriginWarning)
          ELSE /\ g.procedencia = FR(g.nacionalidad.value, "LOW")
               /\ HasWarning(g, OriginWarning) <=> g.nacionalidad.value # <<>>
       /\ Emits =>
            /\ g.procedencia.value # <<>>
            /\ Len(EmittedFields) = NumFields =>
                 EmittedFields[11] = g.procedencia.value]_vars

\* a row whose procedencia is no country was emitted with the code of its
\* nationality as origin, and the warning was logged
C25_Witness ==
  /\ pc = "loop" /\ idx = 1 /\ Len(lines) = 1
  /\ Detected("procedencia") /\ OriginCountry(1).code = <<>>
  /\ ResultOf(1).guest.procedencia = FR(DirectNationality(1).code, "LOW")
  /\ split_on(lines[1], TAB)[11] = DirectNationality(1).code
  /\ warnings = <<[row |-> 2, text |-> OriginWarning]>>

----------------------------------------------------------------------------
(* C26 *)

DestinoCell(r) == get_value(df, r, column_map, "destino")

\* C26: the destino of a record is 169 at HIGH when its cell names a
\* domestic city, also when the text names a country too; otherwise the code
\* of the country the cell resolves to, with the confidence of the resolver;
\* otherwise 169 at LOW.  It is never empty and its confidence never NONE,
\* and the emitted line carries it.
C26_DestinoPrecedence ==
  [][(RowStep /\ BuildsRecord(idx + 1)) =>
       LET r == idx + 1
           g == ResultOf(r).guest
       IN
       /\ g.destino =
            (IF is_colombian_city(DestinoCell(r)) THEN FR(HomeCountryCode, "HIGH")
             ELSE IF get_code(DestinoCell(r)).code # <<>>
               THEN FR(get_code(DestinoCell(r)).code, get_code(DestinoCell(r)).confidence)
             ELSE FR(HomeCountryCode, "LOW"))
       /\ g.destino.value # <<>> /\ g.destino.confidence # "NONE"
       /\ (Emits /\ Len(EmittedFields) = NumFields) =>
            EmittedFields[12] = g.destino.value]_vars

\* a row whose destino names a domestic city and another country was
\* emitted with 169 as destination
C26_Witness ==
  /\ pc = "loop" /\ idx = 1 /\ Len(lines) = 1
  /\ is_colombian_city(DestinoCell(1))
  /\ get_code(DestinoCell(1)).code \notin {<<>>, HomeCountryCode}
  /\ split_on(lines[1], TAB)[12] = HomeCountryCode

----------------------------------------------------------------------------
(* ColombianCities.get_colombia_code_if_city called on its own *)

MaxCityLen == 4

CityAlphabet == {"C", "a", "L", "I", SP, "1"}

CityTexts ==
  UNION {[1..k -> CityAlphabet] : k \in 0..MaxCityLen} \cup
  { Chars("Calif"), Chars("xCali"), Chars("Cali 1"), Chars("Santiago de Cali"),
    Chars("Tunj"), Chars("Tunja x"), Chars("Medellin"),
    Chars("Medell") \o <<"iacute">> \o Chars("n"), Chars("USA"), Chars("Fusa"),
    Chars("Armenia"), Chars("Bogota Colombia"), Chars("Peru"), Chars("Chia"),
    Chars("Chiap"), Chars(" buga "), Chars("nan") }

CityInputs == {StrV(t) : t \in CityTexts} \cup {NoneV, NanV}

InitCity ==
  /\ pc = "call"
  /\ country \in CityInputs
  /\ code_result = NoCodeResult
  /\ ValidateIdle /\ DateIdle /\ DetectIdle /\ ConvertIdle
  /\ TypeIdle /\ NameIdle /\ MatchIdle
  /\ TerminalIdle

CallCityCode ==
  /\ pc = "call"
  /\ code_result' = get_colombia_code_if_city(country)
  /\ pc' = "returned"
  /\ UNCHANGED <<country, validateVars, dateVars, detectVars, convertVars,
                 typeVars, nameVars, matchVars,
                 terminalVars>>

NextCity == CallCityCode

SpecCity == InitCity /\ [][NextCity]_vars

----------------------------------------------------------------------------
(* C27 *)

CityKeys == {CITIES[i].key : i \in 1..Len(CITIES)}

MunicipalityCodes == {CITIES[i].code : i \in 1..Len(CITIES)} \ {HomeCountryCode}

HasCityText(v) == truthy(v) /\ ~is_nan_or_empty(v)

CityReturned == pc = "returned" /\ code_result # NoCodeResult

\* C27: get_colombia_code_if_city returns 169 at HIGH when a domestic city
\* matches and no code at NONE otherwise, never the code of the city; a text
\* whose normalized form is shorter than 5 characters matches only when it
\* equals a city key, a longer one also when it holds a city key.
C27_CityGivesHomeCode ==
  CityReturned =>
    LET n == normalize_country(to_str(country))
        matched == code_result.code # <<>>
    IN
    /\ code_result \in {CodeRet(HomeCountryCode, "HIGH"), CodeRet(<<>>, "NONE")}
    /\ code_result.code \notin MunicipalityCodes
    /\ ~HasCityText(country) => ~matched
    /\ (HasCityText(country) /\ Len(n) < CityMinLen) => (matched <=> n \in CityKeys)
    /\ (HasCityText(country) /\ Len(n) >= CityMinLen) =>
         (matched <=> \E key \in CityKeys : IsSubstring(key, n))

\* a text of fewer than 5 characters that stands inside a city key without
\* being one was given, and no city matched
C27_Witness ==
  /\ CityReturned /\ HasCityText(country)
  /\ Len(normalize_country(to_str(country))) \in 1..(CityMinLen - 1)
  /\ normalize_country(to_str(country)) \notin CityKeys
  /\ \E key \in CityKeys : IsSubstring(normalize_country(to_str(country)), key)
  /\ code_result = CodeRet(<<>>, "NONE")

----------------------------------------------------------------------------
(* C28 *)

\* the fields pass 3 claimed: those detected at LOW
ClaimedByContent == {f \in DOMAIN column_map : column_map[f].conf = "LOW"}

SampleOf(f) == sample_of(df, column_map[f].col)

MatchesOf(f) == content_matches(SampleOf(f), ConfigOf(f).content_patterns)

\* C28: a column pass 3 claims has a sample that is not empty, at least one
\* sampled cell that matches a content pattern of the field, and matching
\* cells that are at least half of the sample.
C28_ClaimedOnEvidence ==
  DetectReturned =>
    \A f \in ClaimedByContent :
      /\ Len(SampleOf(f)) > 0
      /\ MatchesOf(f) >= 1
      /\ 2 * MatchesOf(f) >= Len(SampleOf(f))

\* the same for the claimed columns that hold a cell
C28_ClaimedOnEvidenceIfSampled ==
  DetectReturned =>
    \A f \in ClaimedByContent :
      Len(SampleOf(f)) > 0 =>
        MatchesOf(f) >= 1 /\ 2 * MatchesOf(f) >= Len(SampleOf(f))

----------------------------------------------------------------------------
(* SireTerminal: the window, its event loop and the thread that _process    *)
(* starts.  The console, the statistics labels and the stamp are left out:  *)
(* no handler reads them.  A file stands for what convert makes of it.      *)

MaxSelections == 2

MaxRuns == 2

\* a report with foreign guests, a report with nationals only, and a file
\* read_file raises on (missing, or of a format it does not support)
Files == {"guests.csv", "nationals.csv", "report.pdf"}

Unreadable(f) == f = "report.pdf"

\* stats['valid'] > 0
HasValid(f) == f = "guests.csv"

\* the lines convert returns for a file, in the run the thread belongs to
LinesOf(f, sel) == IF HasValid(f) THEN [file |-> f, selection |-> sel] ELSE NoLines

Call(name, valid) == [call |-> name, valid |-> valid]

restVars ==
  <<pc, validateVars, dateVars, countryVars, detectVars, typeVars, nameVars,
    matchVars, city_code, movement_type, stats, errors, warnings, lines,
    seen_keys, idx, earlier_keys>>

InitTerminal ==
  /\ pc = "mainloop"
  /\ TerminalIdle
  /\ hotel_code = <<>> /\ city_code = Chars("5001") /\ movement_type = "E"
  /\ stats = NoStats /\ errors = <<>> /\ warnings = <<>>
  /\ lines = <<>> /\ seen_keys = {} /\ idx = 0 /\ earlier_keys = {}
  /\ ValidateIdle /\ DateIdle /\ CountryIdle /\ DetectIdle
  /\ TypeIdle /\ NameIdle /\ MatchIdle

\* the user types the code of the establishment
EnterHotelCode ==
  /\ hotel_code = <<>>
  /\ hotel_code' = Chars("12345")
  /\ UNCHANGED <<restVars, terminalVars>>

\* _browse_file with a file chosen: _reset_for_new_file, then the path is set
BrowseFile ==
  /\ selections < MaxSelections
  /\ \E f \in Files : file_path' = f
  /\ download_btn' = FALSE
  /\ output_lines' = NoLines
  /\ converter' = 0
  /\ selections' = selections + 1
  /\ UNCHANGED <<restVars, hotel_code, process_btn, thread, thread_df, thread_lines,
                 idle_calls, runs, started_at, written, none_read>>

\* _process past its three checks: the button is disabled, the thread started
Process ==
  /\ process_btn = "normal"
  /\ file_path # "" /\ hotel_code # <<>> /\ city_code # <<>>
  /\ runs < MaxRuns
  /\ process_btn' = "disabled"
  /\ thread' = "start"
  /\ runs' = runs + 1
  /\ started_at' = selections
  /\ UNCHANGED <<restVars, hotel_code, file_path, download_btn, output_lines, converter,
                 thread_df, thread_lines, idle_calls, selections, written, none_read>>

\* _do_process: self.converter = SireConverter(...)
MakeConverter ==
  /\ thread = "start"
  /\ converter' = runs
  /\ thread' = "made"
  /\ UNCHANGED <<restVars, hotel_code, file_path, process_btn, download_btn, output_lines,
                 thread_df, thread_lines, idle_calls, selections, runs, started_at,
                 written, none_read>>

\* df = self.converter.read_file(self.file_path.get()): AttributeError when
\* self.converter is None by now, the error of read_file on a file it
\* cannot read
ReadFile ==
  /\ thread = "made"
  /\ IF converter = 0
     THEN none_read' = TRUE /\ thread' = "failed" /\ thread_df' = thread_df
     ELSE /\ none_read' = none_read
          /\ IF Unreadable(file_path)
             THEN thread' = "failed" /\ thread_df' = thread_df
             ELSE thread' = "read" /\ thread_df' = file_path
  /\ UNCHANGED <<restVars, hotel_code, file_path, process_btn, download_btn, output_lines,
                 converter, thread_lines, idle_calls, selections, runs, started_at,
                 written>>

\* self.after_idle(log_initial)
ScheduleLog ==
  /\ thread = "read"
  /\ idle_calls' = Append(idle_calls, Call("log_initial", FALSE))
  /\ thread' = "logged"
  /\ UNCHANGED <<restVars, hotel_code, file_path, process_btn, download_btn, output_lines,
                 converter, thread_df, thread_lines, selections, runs, started_at,
                 written, none_read>>

\* lines, stats = self.converter.convert(df, ...): AttributeError when
\* self.converter is None by now
Convert ==
  /\ thread = "logged"
  /\ IF converter = 0
     THEN none_read' = TRUE /\ thread' = "failed" /\ thread_lines' = thread_lines
     ELSE /\ none_read' = none_read
          /\ thread' = "converted"
          /\ thread_lines' = LinesOf(thread_df, started_at)
  /\ UNCHANGED <<restVars, hotel_code, file_path, process_btn, download_btn, output_lines,
                 converter, thread_df, idle_calls, selections, runs, started_at, written>>

\* self.output_lines = lines
StoreLines ==
  /\ thread = "converted"
  /\ output_lines' = thread_lines
  /\ thread' = "stored"
  /\ UNCHANGED <<restVars, hotel_code, file_path, process_btn, download_btn, converter,
                 thread_df, thread_lines, idle_calls, selections, runs, started_at,
                 written, none_read>>

\* self.after_idle(lambda: self._update_results(stats)); the thread ends
ScheduleResults ==
  /\ thread = "stored"
  /\ idle_calls' = Append(idle_calls, Call("update_results", HasValid(thread_df)))
  /\ thread' = "none"
  /\ UNCHANGED <<restVars, hotel_code, file_path, process_btn, download_btn, output_lines,
                 converter, thread_df, thread_lines, selections, runs, started_at,
                 written, none_read>>

\* except Exception as e: self.after_idle(handle_error); the thread ends
ScheduleError ==
  /\ thread = "failed"
  /\ idle_calls' = Append(idle_calls, Call("handle_error", FALSE))
  /\ thread' = "none"
  /\ UNCHANGED <<restVars, hotel_code, file_path, process_btn, download_btn, output_lines,
                 converter, thread_df, thread_lines, selections, runs, started_at,
                 written, none_read>>

\* the event loop runs log_initial: it writes to the console only
LogInitial ==
  /\ idle_calls # <<>> /\ Head(idle_calls).call = "log_initial"
  /\ idle_calls' = Tail(idle_calls)
  /\ UNCHANGED <<restVars, hotel_code, file_path, process_btn, download_btn, output_lines,
                 converter, thread, thread_df, thread_lines, selections, runs,
                 started_at, written, none_read>>

\* the event loop runs _update_results(stats)
UpdateResults ==
  /\ idle_calls # <<>> /\ Head(idle_calls).call = "update_results"
  /\ idle_calls' = Tail(idle_calls)
  /\ download_btn' = (download_btn \/ Head(idle_calls).valid)
  /\ process_btn' = "normal"
  /\ UNCHANGED <<restVars, hotel_code, file_path, output_lines, converter, thread,
                 thread_df, thread_lines, selections, runs, started_at, written,
                 none_read>>

\* the event loop runs handle_error.  Its first statement reads e, which
\* the except clause unbound when it ended: the call raises NameError
\* before it logs and before it touches the button
HandleError ==
  /\ idle_calls # <<>> /\ Head(idle_calls).call = "handle_error"
  /\ idle_calls' = Tail(idle_calls)
  /\ UNCHANGED <<restVars, hotel_code, file_path, process_btn, download_btn, output_lines,
                 converter, thread, thread_df, thread_lines, selections, runs,
                 started_at, written, none_read>>

\* _download with lines to write
Download ==
  /\ download_btn
  /\ output_lines # NoLines
  /\ written' = written \cup {[lines |-> output_lines, selection |-> selections]}
  /\ UNCHANGED <<restVars, hotel_code, file_path, process_btn, download_btn, output_lines,
                 converter, thread, thread_df, thread_lines, idle_calls, selections,
                 runs, started_at, none_read>>

ThreadStep ==
  \/ MakeConverter \/ ReadFile \/ ScheduleLog \/ Convert \/ StoreLines
  \/ ScheduleResults \/ ScheduleError

IdleStep == LogInitial \/ UpdateResults \/ HandleError

NextTerminal ==
  \/ EnterHotelCode \/ BrowseFile \/ Process \/ Download
  \/ MakeConverter \/ ReadFile \/ ScheduleLog \/ Convert \/ StoreLines
  \/ ScheduleResults \/ ScheduleError
  \/ LogInitial \/ UpdateResults \/ HandleError

SpecTerminal == InitTerminal /\ [][NextTerminal]_vars

\* the thread keeps running and the event loop keeps serving its idle calls
SpecTerminalFair == SpecTerminal /\ WF_vars(ThreadStep) /\ WF_vars(IdleStep)

----------------------------------------------------------------------------
(* C29 *)

\* C29: every run _process starts re-enables the process button in the end.
C29_ButtonReenabled == (process_btn = "disabled") ~> (process_btn = "normal")

\* the same for the runs that end with _update_results
C29_ReenabledAfterResults ==
  (\E k \in 1..Len(idle_calls) : idle_calls[k].call = "update_results")
    ~> (process_btn = "normal")

----------------------------------------------------------------------------
(* C30 *)

\* C30: the lines installed come from a run started after the last
\* selection, _download writes no others, and the thread never takes an
\* attribute of a converter that is None.
C30_NoStaleResult ==
  /\ output_lines # NoLines => output_lines.selection = selections
  /\ \A w \in written : w.lines.selection = w.selection
  /\ ~none_read

====
